---- MODULE Spec2Model ----
(***************************************************************************)
(* A model of Source/SceneManager.cpp: the texture registry                *)
(* (m_textureIDs, m_loadedTextures), the material catalog                  *)
(* (m_objectMaterials), the OpenGL texture names and texture units the     *)
(* registry drives, and the uniforms the scene manager pushes to the       *)
(* shader manager.                                                         *)
(*                                                                         *)
(* Floats are written as integers scaled by 100 (0.7f is 70, 22.0f is      *)
(* 2200), those of a transformation as thousandths.  A uniform's value is  *)
(* a sequence: << >> while it was never written, << v >> after v was       *)
(* written.  PrepareScene and RenderScene make their calls one at a step.  *)
(***************************************************************************)
EXTENDS Integers, Sequences, FiniteSets, TLC

VARIABLES
    m_pShaderManager,   \* "NULL" or "shader": the constructor's argument
    m_textureIDs,       \* the array of TEXTURE_INFO {ID, tag}
    m_loadedTextures,   \* number of registered textures
    m_objectMaterials,  \* std::vector<OBJECT_MATERIAL>
    glTextures,         \* texture names glGenTextures has handed out
    glActiveUnit,       \* glActiveTexture: the selected texture unit
    glUnits,            \* texture unit -> name bound to GL_TEXTURE_2D (0: none)
    uniforms,           \* the shader manager's uniforms, by name
    call,               \* the last call: operation, arguments, result, writes
    life,               \* "alive", "destructed", or the undefined behaviour
                        \* the run ended in
    pc                  \* << method, k >>: PrepareScene or RenderScene is about
                        \* to make its k-th call; << "idle", 0 >>: neither runs

vars == << m_pShaderManager, m_textureIDs, m_loadedTextures, m_objectMaterials,
           glTextures, glActiveUnit, glUnits, uniforms, call, life, pc >>

----------------------------------------------------------------------------
(* Program constants *)

\* "There are up to 16 slots": the size of m_textureIDs.
MaxTextureSlots == 16

g_ModelName == "model"
g_ColorValueName == "objectColor"
g_TextureValueName == "objectTexture"
g_UseTextureName == "bUseTexture"
g_UseLightingName == "bUseLighting"

----------------------------------------------------------------------------
(* Bounds of the model *)

\* texture names glGenTextures may hand out in a run of Spec
MaxGen == 4
\* calls of DefineObjectMaterials in a run
MaxDefines == 2
\* textures loaded in a run of SpecBinder
MaxBinderLoads == 1
\* files of LoadSceneTextures that fail to load in a run of SpecScene
MaxFailedLoads == 1
\* the largest scale factor of SpecTransform
MaxScale == 2
\* the largest coordinate of a position of SpecTransform, either side of 0
MaxPosition == 1

\* what stbi_load can return: no image, or an image with 1..4 channels
NoImage == [image |-> FALSE, colorChannels |-> 0]
Images == {NoImage} \cup { [image |-> TRUE, colorChannels |-> c] : c \in {1, 3, 4} }

\* the images CreateGLTexture registers
RegisteredImages == { img \in Images : img.image /\ img.colorChannels \in {3, 4} }

\* tags the callers register, and tags they look up
LoadTags == {"steel", "obsidian", "orange"}
LookupTags == LoadTags \cup {"missing"}
\* the tag of the caller that fills the registry
CapacityTags == {"steel"}

Slots == 0 .. (MaxTextureSlots - 1)

----------------------------------------------------------------------------
(* The shader manager's uniforms *)

\* the uniforms of SetupSceneLights: three point lights and the directional
\* light, whose direction is written under "directionalLight" and whose colors
\* are written under "directionLight"
PointLightFields == {"position", "ambient", "diffuse", "specular", "bActive"}
PointLightName(i, field) ==
    CASE i = 0 -> ( CASE field = "position" -> "pointLights[0].position"
                      [] field = "ambient" -> "pointLights[0].ambient"
                      [] field = "diffuse" -> "pointLights[0].diffuse"
                      [] field = "specular" -> "pointLights[0].specular"
                      [] field = "bActive" -> "pointLights[0].bActive" )
      [] i = 1 -> ( CASE field = "position" -> "pointLights[1].position"
                      [] field = "ambient" -> "pointLights[1].ambient"
                      [] field = "diffuse" -> "pointLights[1].diffuse"
                      [] field = "specular" -> "pointLights[1].specular"
                      [] field = "bActive" -> "pointLights[1].bActive" )
      [] i = 2 -> ( CASE field = "position" -> "pointLights[2].position"
                      [] field = "ambient" -> "pointLights[2].ambient"
                      [] field = "diffuse" -> "pointLights[2].diffuse"
                      [] field = "specular" -> "pointLights[2].specular"
                      [] field = "bActive" -> "pointLights[2].bActive" )

LightUniformNames ==
    { PointLightName(i, field) : i \in 0 .. 2, field \in PointLightFields }
       \cup { "directionalLight.direction", "directionLight.ambient",
               "directionLight.diffuse", "directionLight.specular" }

UniformNames ==
    { g_ModelName, g_ColorValueName, g_TextureValueName, g_UseTextureName,
      g_UseLightingName, "UVscale",
      "material.diffuseColor", "material.specularColor", "material.shininess" }
       \cup LightUniformNames

\* ShaderManager::set*Value(name, value), applied to a uniform map
SetUniform(u, name, value) == [u EXCEPT ![name] = << value >>]

Void == << >>

Call(op, args, ret, writes) ==
    [op |-> op, args |-> args, ret |-> ret, writes |-> writes]

----------------------------------------------------------------------------
(* OpenGL *)

\* glGenTextures(1, &id): a name not in use
GenTexture(names) == CHOOSE n \in 1 .. (Cardinality(names) + 1) : n \notin names

----------------------------------------------------------------------------
(* SceneManager::SceneManager *)

\* m_textureIDs and m_loadedTextures are members declared in SceneManager.h; the
\* constructor's body does not assign them.  The registry starts empty: no
\* texture is loaded, and the array's entries hold no name and an empty tag.
NoTexturesLoaded == 0
EmptyTextureIDs == [i \in Slots |-> [ID |-> 0, tag |-> ""]]

Idle == << "idle", 0 >>

Init ==
    /\ m_pShaderManager \in {"NULL", "shader"}
    /\ m_textureIDs = EmptyTextureIDs
    /\ m_loadedTextures = NoTexturesLoaded
    /\ m_objectMaterials = << >>
    /\ glTextures = {}
    /\ glActiveUnit = 0
    /\ glUnits = [i \in Slots |-> 0]
    /\ uniforms = [n \in UniformNames |-> << >>]
    /\ call = Call("SceneManager", << >>, Void, {})
    /\ life = "alive"
    /\ pc = Idle

----------------------------------------------------------------------------
(* SceneManager::CreateGLTexture *)

\* a plausible slip: every decoded image is uploaded as if it were RGB or RGBA
SupportedChannels_Any(colorChannels) == colorChannels >= 1

\* "if (colorChannels == 3) ... else if (colorChannels == 4) ... else"
SupportedChannels(colorChannels) == colorChannels = 3 \/ colorChannels = 4

\* a plausible slip: the counter is taken as the last used index, not the next
RegisterTexture_AfterNext(ids, n, textureID, tag) ==
    [ids EXCEPT ![IF n + 1 < MaxTextureSlots THEN n + 1 ELSE 0] =
        [ID |-> textureID, tag |-> tag]]

\* "m_textureIDs[m_loadedTextures].ID = textureID; ....tag = tag;"
RegisterTexture(ids, n, textureID, tag) ==
    [ids EXCEPT ![n] = [ID |-> textureID, tag |-> tag]]

\* a plausible slip: the texture object is made before the image is tested
ImageLoaded_Always(img) == TRUE

\* "if (image)": stbi_load returned pixel data
ImageLoaded(img) == img.image

CreateGLTexture(img, tag) ==
    /\ life = "alive"
    /\ IF ImageLoaded(img)
       THEN LET textureID == GenTexture(glTextures) IN
            /\ glTextures' = glTextures \cup {textureID}
            /\ IF SupportedChannels(img.colorChannels)
               THEN \* glTexImage2D, glGenerateMipmap, stbi_image_free, unbind
                    /\ glUnits' = [glUnits EXCEPT ![glActiveUnit] = 0]
                    /\ IF m_loadedTextures < MaxTextureSlots
                       THEN /\ m_textureIDs' =
                                 RegisterTexture(m_textureIDs, m_loadedTextures,
                                                 textureID, tag)
                            /\ m_loadedTextures' = m_loadedTextures + 1
                            /\ life' = "alive"
                            /\ call' = Call("CreateGLTexture", << img, tag >>,
                                            << TRUE >>, {})
                       ELSE \* m_textureIDs[16]: a write past the end of the array
                            /\ m_textureIDs' = m_textureIDs
                            /\ m_loadedTextures' \in 0 .. (m_loadedTextures + 1)
                            /\ life' = "out_of_bounds_write"
                            /\ call' = Call("CreateGLTexture", << img, tag >>,
                                            << TRUE >>, {})
               ELSE \* "Not implemented to handle image with n channels"
                    /\ glUnits' = [glUnits EXCEPT ![glActiveUnit] = textureID]
                    /\ call' = Call("CreateGLTexture", << img, tag >>,
                                    << FALSE >>, {})
                    /\ UNCHANGED << m_textureIDs, m_loadedTextures, life >>
       ELSE \* "Could not load image"
            /\ call' = Call("CreateGLTexture", << img, tag >>, << FALSE >>, {})
            /\ UNCHANGED << m_textureIDs, m_loadedTextures, glTextures,
                            glUnits, life >>
    /\ UNCHANGED << m_pShaderManager, m_objectMaterials, glActiveUnit, uniforms >>

----------------------------------------------------------------------------
(* SceneManager::BindGLTextures *)

\* a plausible slip: the units are counted from GL_TEXTURE1
BoundUnits_FromOne(units, ids, n) ==
    [u \in Slots |-> IF 0 < u /\ u <= n THEN ids[u - 1].ID ELSE units[u]]

\* the loop "for (i = 0; i < m_loadedTextures; i++)": glActiveTexture(GL_TEXTURE0
\* + i); glBindTexture(GL_TEXTURE_2D, m_textureIDs[i].ID)
BoundUnits(units, ids, n) ==
    [u \in Slots |-> IF u < n THEN ids[u].ID ELSE units[u]]

BindGLTextures ==
    /\ life = "alive"
    /\ glUnits' = BoundUnits(glUnits, m_textureIDs, m_loadedTextures)
    /\ glActiveUnit' =
         IF m_loadedTextures > 0 THEN m_loadedTextures - 1 ELSE glActiveUnit
    /\ call' = Call("BindGLTextures", << >>, Void, {})
    /\ UNCHANGED << m_pShaderManager, m_textureIDs, m_loadedTextures,
                    m_objectMaterials, glTextures, uniforms, life >>

----------------------------------------------------------------------------
(* SceneManager::DestroyGLTextures *)

\* the names the loop's glGenTextures(1, &m_textureIDs[i].ID) calls hand out,
\* one after the other, for i = 0 .. n-1
RECURSIVE GenTextures(_, _)
GenTextures(names, n) ==
    IF n = 0 THEN << >>
    ELSE LET id == GenTexture(names)
         IN  << id >> \o GenTextures(names \cup {id}, n - 1)

DestroyGLTextures ==
    /\ life = "alive"
    /\ LET fresh == GenTextures(glTextures, m_loadedTextures) IN
       /\ m_textureIDs' =
            [i \in Slots |->
                IF i < m_loadedTextures
                THEN [m_textureIDs[i] EXCEPT !.ID = fresh[i + 1]]
                ELSE m_textureIDs[i]]
       /\ glTextures' = glTextures \cup { fresh[k] : k \in DOMAIN fresh }
    /\ call' = Call("DestroyGLTextures", << >>, Void, {})
    /\ UNCHANGED << m_pShaderManager, m_loadedTextures, m_objectMaterials,
                    glActiveUnit, glUnits, uniforms, life >>

----------------------------------------------------------------------------
(* SceneManager::FindTextureID and SceneManager::FindTextureSlot *)

\* a plausible slip: the loop goes on after a match, so the last match wins
RECURSIVE FindTextureIDLoop_LastMatch(_, _, _, _)
FindTextureIDLoop_LastMatch(ids, n, tag, index) ==
    IF index < n
    THEN LET later == FindTextureIDLoop_LastMatch(ids, n, tag, index + 1)
         IN  IF later # -1 THEN later
             ELSE IF ids[index].tag = tag THEN ids[index].ID ELSE -1
    ELSE -1

\* "int textureID = -1; int index = 0; while ((index < m_loadedTextures) &&
\* (bFound == false))": the ID of the first entry from `index` on whose tag
\* compares equal, or -1
RECURSIVE FindTextureIDLoop(_, _, _, _)
FindTextureIDLoop(ids, n, tag, index) ==
    IF index < n
    THEN IF ids[index].tag = tag THEN ids[index].ID
         ELSE FindTextureIDLoop(ids, n, tag, index + 1)
    ELSE -1

\* a plausible slip: "int index = 1;"
FindTextureIDIn_FromOne(ids, n, tag) == FindTextureIDLoop(ids, n, tag, 1)

FindTextureIDIn(ids, n, tag) == FindTextureIDLoop(ids, n, tag, 0)

\* a plausible slip: the loop goes on after a match, so the last match wins
RECURSIVE FindTextureSlotLoop_LastMatch(_, _, _, _)
FindTextureSlotLoop_LastMatch(ids, n, tag, index) ==
    IF index < n
    THEN LET later == FindTextureSlotLoop_LastMatch(ids, n, tag, index + 1)
         IN  IF later # -1 THEN later
             ELSE IF ids[index].tag = tag THEN index ELSE -1
    ELSE -1

\* "int textureSlot = -1; int index = 0; while ((index < m_loadedTextures) &&
\* (bFound == false))": the first index from `index` on whose tag compares
\* equal, or -1
RECURSIVE FindTextureSlotLoop(_, _, _, _)
FindTextureSlotLoop(ids, n, tag, index) ==
    IF index < n
    THEN IF ids[index].tag = tag THEN index
         ELSE FindTextureSlotLoop(ids, n, tag, index + 1)
    ELSE -1

\* a plausible slip: "int textureSlot = 0;"
FindTextureSlotIn_FromZero(ids, n, tag) ==
    LET textureSlot == FindTextureSlotLoop(ids, n, tag, 0)
    IN  IF textureSlot = -1 THEN 0 ELSE textureSlot

FindTextureSlotIn(ids, n, tag) == FindTextureSlotLoop(ids, n, tag, 0)

FindTextureID(tag) == FindTextureIDIn(m_textureIDs, m_loadedTextures, tag)

FindTextureSlot(tag) == FindTextureSlotIn(m_textureIDs, m_loadedTextures, tag)

\* a caller's call of a lookup: it returns its result and assigns no member
CallFindTextureID(tag) ==
    /\ life = "alive"
    /\ call' = Call("FindTextureID", << tag >>, << FindTextureID(tag) >>, {})
    /\ UNCHANGED << m_pShaderManager, m_textureIDs, m_loadedTextures,
                    m_objectMaterials, glTextures, glActiveUnit, glUnits,
                    uniforms, life >>

CallFindTextureSlot(tag) ==
    /\ life = "alive"
    /\ call' = Call("FindTextureSlot", << tag >>, << FindTextureSlot(tag) >>, {})
    /\ UNCHANGED << m_pShaderManager, m_textureIDs, m_loadedTextures,
                    m_objectMaterials, glTextures, glActiveUnit, glUnits,
                    uniforms, life >>

----------------------------------------------------------------------------
(* SceneManager::FindMaterial *)

\* the while loop: the first index from `index` on whose tag compares equal, or
\* Len(materials) + 1 when the loop runs off the end (the vector is 1-based here)
RECURSIVE ScanMaterials(_, _, _)
ScanMaterials(materials, tag, index) ==
    IF index <= Len(materials)
    THEN IF materials[index].tag = tag THEN index
         ELSE ScanMaterials(materials, tag, index + 1)
    ELSE Len(materials) + 1

\* a plausible slip: a pasted line that copies the diffuse colour twice
FindMaterial_CopiesDiffuseTwice(tag, material) ==
    IF Len(m_objectMaterials) = 0
    THEN [ret |-> FALSE, material |-> material]
    ELSE LET index == ScanMaterials(m_objectMaterials, tag, 1) IN
         IF index <= Len(m_objectMaterials)
         THEN [ret |-> TRUE,
               material |->
                 [material EXCEPT
                    !.diffuseColor = m_objectMaterials[index].diffuseColor,
                    !.specularColor = m_objectMaterials[index].diffuseColor,
                    !.shininess = m_objectMaterials[index].shininess]]
         ELSE [ret |-> TRUE, material |-> material]

\* the result and the out-parameter `material`, which the caller passes in
FindMaterial(tag, material) ==
    IF Len(m_objectMaterials) = 0
    THEN [ret |-> FALSE, material |-> material]
    ELSE LET index == ScanMaterials(m_objectMaterials, tag, 1) IN
         IF index <= Len(m_objectMaterials)
         THEN [ret |-> TRUE,
               material |->
                 [material EXCEPT
                    !.diffuseColor = m_objectMaterials[index].diffuseColor,
                    !.specularColor = m_objectMaterials[index].specularColor,
                    !.shininess = m_objectMaterials[index].shininess]]
         ELSE [ret |-> TRUE, material |-> material]

----------------------------------------------------------------------------
(* SceneManager::SetShaderColor *)

\* a plausible slip: the color is pushed and texture sampling is left as it was
SetShaderColor_KeepsUseTexture(redColorValue, greenColorValue, blueColorValue, alphaValue) ==
    /\ life = "alive"
    /\ LET currentColor ==
             << redColorValue, greenColorValue, blueColorValue, alphaValue >>
       IN  IF m_pShaderManager # "NULL"
           THEN /\ uniforms' = SetUniform(uniforms, g_ColorValueName, currentColor)
                /\ call' = Call("SetShaderColor", currentColor, Void,
                                {g_ColorValueName})
           ELSE /\ uniforms' = uniforms
                /\ call' = Call("SetShaderColor", currentColor, Void, {})
    /\ UNCHANGED << m_pShaderManager, m_textureIDs, m_loadedTextures,
                    m_objectMaterials, glTextures, glActiveUnit, glUnits, life >>

SetShaderColor(redColorValue, greenColorValue, blueColorValue, alphaValue) ==
    /\ life = "alive"
    /\ LET currentColor ==
             << redColorValue, greenColorValue, blueColorValue, alphaValue >>
       IN  IF m_pShaderManager # "NULL"
           THEN /\ uniforms' =
                     SetUniform(SetUniform(uniforms, g_UseTextureName, 0),
                                g_ColorValueName, currentColor)
                /\ call' = Call("SetShaderColor", currentColor, Void,
                                {g_UseTextureName, g_ColorValueName})
           ELSE /\ uniforms' = uniforms
                /\ call' = Call("SetShaderColor", currentColor, Void, {})
    /\ UNCHANGED << m_pShaderManager, m_textureIDs, m_loadedTextures,
                    m_objectMaterials, glTextures, glActiveUnit, glUnits, life >>

----------------------------------------------------------------------------
(* SceneManager::SetShaderTexture *)

\* a plausible slip: the OpenGL name of the texture is pushed, not its slot
SetShaderTexture_PushesID(textureTag) ==
    /\ life = "alive"
    /\ IF m_pShaderManager # "NULL"
       THEN LET textureID == FindTextureID(textureTag) IN
            /\ uniforms' =
                 SetUniform(SetUniform(uniforms, g_UseTextureName, 1),
                            g_TextureValueName, textureID)
            /\ call' = Call("SetShaderTexture", << textureTag >>, Void,
                            {g_UseTextureName, g_TextureValueName})
       ELSE /\ uniforms' = uniforms
            /\ call' = Call("SetShaderTexture", << textureTag >>, Void, {})
    /\ UNCHANGED << m_pShaderManager, m_textureIDs, m_loadedTextures,
                    m_objectMaterials, glTextures, glActiveUnit, glUnits, life >>

\* a plausible slip: the slot is pushed and texture sampling is left as it was
SetShaderTexture_KeepsUseTexture(textureTag) ==
    /\ life = "alive"
    /\ IF m_pShaderManager # "NULL"
       THEN LET textureID == FindTextureSlot(textureTag) IN
            /\ uniforms' = SetUniform(uniforms, g_TextureValueName, textureID)
            /\ call' = Call("SetShaderTexture", << textureTag >>, Void,
                            {g_TextureValueName})
       ELSE /\ uniforms' = uniforms
            /\ call' = Call("SetShaderTexture", << textureTag >>, Void, {})
    /\ UNCHANGED << m_pShaderManager, m_textureIDs, m_loadedTextures,
                    m_objectMaterials, glTextures, glActiveUnit, glUnits, life >>

SetShaderTexture(textureTag) ==
    /\ life = "alive"
    /\ IF m_pShaderManager # "NULL"
       THEN LET textureID == FindTextureSlot(textureTag) IN
            /\ uniforms' =
                 SetUniform(SetUniform(uniforms, g_UseTextureName, 1),
                            g_TextureValueName, textureID)
            /\ call' = Call("SetShaderTexture", << textureTag >>, Void,
                            {g_UseTextureName, g_TextureValueName})
       ELSE /\ uniforms' = uniforms
            /\ call' = Call("SetShaderTexture", << textureTag >>, Void, {})
    /\ UNCHANGED << m_pShaderManager, m_textureIDs, m_loadedTextures,
                    m_objectMaterials, glTextures, glActiveUnit, glUnits, life >>

----------------------------------------------------------------------------
(* SceneManager::SetTextureUVScale *)

\* a plausible slip: setting the UV scale also turns texture sampling on
SetTextureUVScale_EnablesTexture(u, v) ==
    /\ life = "alive"
    /\ IF m_pShaderManager # "NULL"
       THEN /\ uniforms' = SetUniform(SetUniform(uniforms, g_UseTextureName, 1),
                                      "UVscale", << u, v >>)
            /\ call' = Call("SetTextureUVScale", << u, v >>, Void,
                            {g_UseTextureName, "UVscale"})
       ELSE /\ uniforms' = uniforms
            /\ call' = Call("SetTextureUVScale", << u, v >>, Void, {})
    /\ UNCHANGED << m_pShaderManager, m_textureIDs, m_loadedTextures,
                    m_objectMaterials, glTextures, glActiveUnit, glUnits, life >>

SetTextureUVScale(u, v) ==
    /\ life = "alive"
    /\ IF m_pShaderManager # "NULL"
       THEN /\ uniforms' = SetUniform(uniforms, "UVscale", << u, v >>)
            /\ call' = Call("SetTextureUVScale", << u, v >>, Void, {"UVscale"})
       ELSE /\ uniforms' = uniforms
            /\ call' = Call("SetTextureUVScale", << u, v >>, Void, {})
    /\ UNCHANGED << m_pShaderManager, m_textureIDs, m_loadedTextures,
                    m_objectMaterials, glTextures, glActiveUnit, glUnits, life >>

----------------------------------------------------------------------------
(* SceneManager::SetShaderMaterial *)

\* "OBJECT_MATERIAL material;" is not initialized: its fields hold whatever the
\* stack held
UninitializedMaterials ==
    { [diffuseColor |-> << g, g, g >>, specularColor |-> << g, g, g >>,
       shininess |-> g, tag |-> ""] : g \in {0, -1} }

MaterialUniforms ==
    {"material.diffuseColor", "material.specularColor", "material.shininess"}

SetShaderMaterial(materialTag) ==
    /\ life = "alive"
    /\ IF Len(m_objectMaterials) > 0
       THEN \E uninitialized \in UninitializedMaterials :
              LET found == FindMaterial(materialTag, uninitialized)
                  material == found.material
              IN  IF found.ret = TRUE
                  THEN IF m_pShaderManager # "NULL"
                       THEN /\ uniforms' =
                                 SetUniform(
                                   SetUniform(
                                     SetUniform(uniforms, "material.diffuseColor",
                                                material.diffuseColor),
                                     "material.specularColor",
                                     material.specularColor),
                                   "material.shininess", material.shininess)
                            /\ call' = Call("SetShaderMaterial", << materialTag >>,
                                            Void, MaterialUniforms)
                            /\ life' = "alive"
                       ELSE \* m_pShaderManager->setVec3Value on a null pointer
                            /\ uniforms' = uniforms
                            /\ call' = Call("SetShaderMaterial", << materialTag >>,
                                            Void, {})
                            /\ life' = "null_dereference"
                  ELSE /\ call' = Call("SetShaderMaterial", << materialTag >>,
                                       Void, {})
                       /\ UNCHANGED << uniforms, life >>
       ELSE /\ call' = Call("SetShaderMaterial", << materialTag >>, Void, {})
            /\ UNCHANGED << uniforms, life >>
    /\ UNCHANGED << m_pShaderManager, m_textureIDs, m_loadedTextures,
                    m_objectMaterials, glTextures, glActiveUnit, glUnits >>

----------------------------------------------------------------------------
(* SceneManager::DefineObjectMaterials *)

Material(tag, diffuseColor, specularColor, shininess) ==
    [tag |-> tag, diffuseColor |-> diffuseColor,
     specularColor |-> specularColor, shininess |-> shininess]

metalMaterial == Material("metal", << 20, 20, 100 >>, << 60, 50, 40 >>, 2200)
cementMaterial == Material("cement", << 50, 50, 50 >>, << 40, 40, 40 >>, 50)
woodMaterial == Material("wood", << 30, 20, 10 >>, << 10, 10, 10 >>, 30)
tileMaterial == Material("tile", << 30, 20, 10 >>, << 40, 50, 60 >>, 2500)
glassMaterial == Material("glass", << 30, 30, 30 >>, << 60, 60, 60 >>, 8500)
clayMaterial == Material("clay", << 40, 40, 50 >>, << 20, 20, 40 >>, 50)
ceramicMaterial == Material("ceramic", << 60, 60, 60 >>, << 45, 45, 45 >>, 5000)

\* a plausible slip: one push_back is missing, that of the cement
DefineObjectMaterials_WithoutCement ==
    /\ life = "alive"
    /\ m_objectMaterials' =
         m_objectMaterials \o
           << metalMaterial, woodMaterial, tileMaterial,
              glassMaterial, clayMaterial, ceramicMaterial >>
    /\ call' = Call("DefineObjectMaterials", << >>, Void, {})
    /\ UNCHANGED << m_pShaderManager, m_textureIDs, m_loadedTextures,
                    glTextures, glActiveUnit, glUnits, uniforms, life >>

\* a plausible slip: the catalog is cleared before it is filled
DefineObjectMaterials_ClearsFirst ==
    /\ life = "alive"
    /\ m_objectMaterials' =
         << metalMaterial, cementMaterial, woodMaterial, tileMaterial,
            glassMaterial, clayMaterial, ceramicMaterial >>
    /\ call' = Call("DefineObjectMaterials", << >>, Void, {})
    /\ UNCHANGED << m_pShaderManager, m_textureIDs, m_loadedTextures,
                    glTextures, glActiveUnit, glUnits, uniforms, life >>

DefineObjectMaterials ==
    /\ life = "alive"
    /\ m_objectMaterials' =
         m_objectMaterials \o
           << metalMaterial, cementMaterial, woodMaterial, tileMaterial,
              glassMaterial, clayMaterial, ceramicMaterial >>
    /\ call' = Call("DefineObjectMaterials", << >>, Void, {})
    /\ UNCHANGED << m_pShaderManager, m_textureIDs, m_loadedTextures,
                    glTextures, glActiveUnit, glUnits, uniforms, life >>

----------------------------------------------------------------------------
(* SceneManager::SetupSceneLights *)

\* the position of point light i
PointLightPosition(i) ==
    CASE i = 0 -> << 0, 1600, 0 >>
      [] i = 1 -> << 2000, 1600, 0 >>
      [] i = 2 -> << -2000, 1600, 0 >>

\* the writes of one point light, in the order of the code
PointLightWrites(i) ==
    << << PointLightName(i, "position"), PointLightPosition(i) >>,
       << PointLightName(i, "ambient"), << 5, 5, 5 >> >>,
       << PointLightName(i, "diffuse"), << 60, 60, 60 >> >>,
       << PointLightName(i, "specular"), << 75, 75, 75 >> >>,
       << PointLightName(i, "bActive"), TRUE >> >>

\* every write of the method, in the order of the code
SceneLightWrites ==
    << << g_UseLightingName, TRUE >> >>
       \o PointLightWrites(0) \o PointLightWrites(1) \o PointLightWrites(2)
       \o << << "directionalLight.direction", << 400, 2000, -400 >> >>,
             << "directionLight.ambient", << 5, 5, 5 >> >>,
             << "directionLight.diffuse", << 60, 60, 60 >> >>,
             << "directionLight.specular", << 0, 0, 0 >> >> >>

\* the uniform map after the first n of the writes
RECURSIVE SetUniforms(_, _, _)
SetUniforms(u, writes, n) ==
    IF n = 0
    THEN u
    ELSE SetUniform(SetUniforms(u, writes, n - 1), writes[n][1], writes[n][2])

SetupSceneLights ==
    /\ life = "alive"
    /\ IF m_pShaderManager # "NULL"
       THEN /\ uniforms' =
                 SetUniforms(uniforms, SceneLightWrites, Len(SceneLightWrites))
            /\ call' = Call("SetupSceneLights", << >>, Void,
                            {g_UseLightingName} \cup LightUniformNames)
            /\ life' = "alive"
       ELSE \* m_pShaderManager->setBoolValue on a null pointer
            /\ uniforms' = uniforms
            /\ call' = Call("SetupSceneLights", << >>, Void, {})
            /\ life' = "null_dereference"
    /\ UNCHANGED << m_pShaderManager, m_textureIDs, m_loadedTextures,
                    m_objectMaterials, glTextures, glActiveUnit, glUnits >>

----------------------------------------------------------------------------
(* SceneManager::~SceneManager *)

Destructor ==
    /\ life = "alive"
    /\ m_pShaderManager' = "NULL"
    /\ life' = "destructed"
    /\ call' = Call("~SceneManager", << >>, Void, {})
    /\ UNCHANGED << m_textureIDs, m_loadedTextures, m_objectMaterials,
                    glTextures, glActiveUnit, glUnits, uniforms >>

----------------------------------------------------------------------------
(* SceneManager::SetTransformations *)

(* A float of a transformation is written in thousandths, rounded to the     *)
(* nearest (1.0f is 1000, 0.62f is 620, 10.50001f is 10500).  A glm::mat4 is *)
(* the tuple of its four rows, as the matrix is written in mathematics; a    *)
(* product of two thousandths is divided by 1000.                            *)

\* cos(glm::radians(degrees)) and sin(glm::radians(degrees)), for the angles the
\* callers pass
Cos(degrees) ==
    LET d == degrees % 360
    IN  CASE d = 0 -> 1000
          [] d = 90 -> 0
          [] d = 180 -> -1000
          [] d = 270 -> 0
          [] d = 40 -> 766
          [] d = 320 -> 766

Sin(degrees) ==
    LET d == degrees % 360
    IN  CASE d = 0 -> 0
          [] d = 90 -> 1000
          [] d = 180 -> 0
          [] d = 270 -> -1000
          [] d = 40 -> 643
          [] d = 320 -> -643

\* glm::mat4 operator*
MatEntry(A, B, i, j) ==
    (A[i][1] * B[1][j] + A[i][2] * B[2][j]
       + A[i][3] * B[3][j] + A[i][4] * B[4][j]) \div 1000

MatRow(A, B, i) ==
    << MatEntry(A, B, i, 1), MatEntry(A, B, i, 2),
       MatEntry(A, B, i, 3), MatEntry(A, B, i, 4) >>

MatMul(A, B) ==
    << MatRow(A, B, 1), MatRow(A, B, 2), MatRow(A, B, 3), MatRow(A, B, 4) >>

\* glm::scale(v)
ScaleMatrix(v) ==
    << << v[1], 0, 0, 0 >>,
       << 0, v[2], 0, 0 >>,
       << 0, 0, v[3], 0 >>,
       << 0, 0, 0, 1000 >> >>

\* glm::rotate(glm::radians(degrees), glm::vec3(1, 0, 0))
RotateX(degrees) ==
    << << 1000, 0, 0, 0 >>,
       << 0, Cos(degrees), -Sin(degrees), 0 >>,
       << 0, Sin(degrees), Cos(degrees), 0 >>,
       << 0, 0, 0, 1000 >> >>

\* glm::rotate(glm::radians(degrees), glm::vec3(0, 1, 0))
RotateY(degrees) ==
    << << Cos(degrees), 0, Sin(degrees), 0 >>,
       << 0, 1000, 0, 0 >>,
       << -Sin(degrees), 0, Cos(degrees), 0 >>,
       << 0, 0, 0, 1000 >> >>

\* glm::rotate(glm::radians(degrees), glm::vec3(0, 0, 1))
RotateZ(degrees) ==
    << << Cos(degrees), -Sin(degrees), 0, 0 >>,
       << Sin(degrees), Cos(degrees), 0, 0 >>,
       << 0, 0, 1000, 0 >>,
       << 0, 0, 0, 1000 >> >>

\* a plausible slip: the translation is built on a zero matrix
TranslateMatrix_FromZero(v) ==
    << << 0, 0, 0, v[1] >>,
       << 0, 0, 0, v[2] >>,
       << 0, 0, 0, v[3] >>,
       << 0, 0, 0, 0 >> >>

\* glm::translate(v)
TranslateMatrix(v) ==
    << << 1000, 0, 0, v[1] >>,
       << 0, 1000, 0, v[2] >>,
       << 0, 0, 1000, v[3] >>,
       << 0, 0, 0, 1000 >> >>

\* a plausible slip: the factors in the order they were computed
ComposeModelView_ScaleFirstFactor(scale, rotationX, rotationY, rotationZ, translation) ==
    MatMul(MatMul(MatMul(MatMul(scale, rotationX), rotationY), rotationZ),
           translation)

\* a plausible slip: the translation is not the leftmost factor
ComposeModelView_TranslationInside(scale, rotationX, rotationY, rotationZ, translation) ==
    MatMul(MatMul(MatMul(MatMul(rotationZ, translation), rotationY), rotationX),
           scale)

\* "modelView = translation * rotationZ * rotationY * rotationX * scale;"
ComposeModelView(scale, rotationX, rotationY, rotationZ, translation) ==
    MatMul(MatMul(MatMul(MatMul(translation, rotationZ), rotationY), rotationX),
           scale)

\* a plausible slip: the matrix is multiplied onto the one pushed before
SetTransformations_Accumulates(scaleXYZ, XrotationDegrees, YrotationDegrees, ZrotationDegrees, positionXYZ) ==
    /\ life = "alive"
    /\ LET modelView ==
               ComposeModelView(ScaleMatrix(scaleXYZ), RotateX(XrotationDegrees),
                                RotateY(YrotationDegrees),
                                RotateZ(ZrotationDegrees),
                                TranslateMatrix(positionXYZ))
           args == << scaleXYZ, XrotationDegrees, YrotationDegrees,
                      ZrotationDegrees, positionXYZ >>
       IN  IF m_pShaderManager # "NULL"
           THEN /\ uniforms' =
                     SetUniform(uniforms, g_ModelName,
                                IF uniforms[g_ModelName] = << >>
                                THEN modelView
                                ELSE MatMul(uniforms[g_ModelName][1], modelView))
                /\ call' = Call("SetTransformations", args, Void, {g_ModelName})
           ELSE /\ uniforms' = uniforms
                /\ call' = Call("SetTransformations", args, Void, {})
    /\ UNCHANGED << m_pShaderManager, m_textureIDs, m_loadedTextures,
                    m_objectMaterials, glTextures, glActiveUnit, glUnits, life >>

SetTransformations(scaleXYZ, XrotationDegrees, YrotationDegrees, ZrotationDegrees, positionXYZ) ==
    /\ life = "alive"
    /\ LET scale == ScaleMatrix(scaleXYZ)
           rotationX == RotateX(XrotationDegrees)
           rotationY == RotateY(YrotationDegrees)
           rotationZ == RotateZ(ZrotationDegrees)
           translation == TranslateMatrix(positionXYZ)
           modelView == ComposeModelView(scale, rotationX, rotationY, rotationZ,
                                         translation)
           args == << scaleXYZ, XrotationDegrees, YrotationDegrees,
                      ZrotationDegrees, positionXYZ >>
       IN  IF m_pShaderManager # "NULL"
           THEN /\ uniforms' = SetUniform(uniforms, g_ModelName, modelView)
                /\ call' = Call("SetTransformations", args, Void, {g_ModelName})
           ELSE /\ uniforms' = uniforms
                /\ call' = Call("SetTransformations", args, Void, {})
    /\ UNCHANGED << m_pShaderManager, m_textureIDs, m_loadedTextures,
                    m_objectMaterials, glTextures, glActiveUnit, glUnits, life >>

----------------------------------------------------------------------------
(* ShapeMeshes::Load...Mesh and ShapeMeshes::Draw...Mesh, called through   *)
(* m_basicMeshes                                                          *)

\* loading a mesh builds its geometry and touches neither the registry, the
\* catalog nor the shader
LoadMesh(mesh) ==
    /\ life = "alive"
    /\ call' = Call(mesh, << >>, Void, {})
    /\ UNCHANGED << m_pShaderManager, m_textureIDs, m_loadedTextures,
                    m_objectMaterials, glTextures, glActiveUnit, glUnits,
                    uniforms, life >>

\* a draw takes no argument and uses the state the shader was left in
DrawMesh(mesh) ==
    /\ life = "alive"
    /\ call' = Call(mesh, << >>, Void, {})
    /\ UNCHANGED << m_pShaderManager, m_textureIDs, m_loadedTextures,
                    m_objectMaterials, glTextures, glActiveUnit, glUnits,
                    uniforms, life >>

----------------------------------------------------------------------------
(* SceneManager::LoadSceneTextures and SceneManager::PrepareScene *)

(* A method that only makes calls is the sequence of its calls, each a pair  *)
(* of the name of the method called and its arguments.  CreateGLTexture is   *)
(* listed with its tag: what the file decodes to is chosen when the call is  *)
(* made.                                                                     *)

\* a plausible slip: the textures are bound before they are loaded
LoadSceneTexturesCalls_BindsFirst ==
    << << "BindGLTextures", << >> >>,
       << "CreateGLTexture", << "steel" >> >>,
       << "CreateGLTexture", << "obsidian" >> >>,
       << "CreateGLTexture", << "orange" >> >>,
       << "CreateGLTexture", << "black" >> >>,
       << "CreateGLTexture", << "tan" >> >>,
       << "CreateGLTexture", << "taupe" >> >>,
       << "CreateGLTexture", << "white_wood" >> >>,
       << "CreateGLTexture", << "red_ceramic" >> >>,
       << "CreateGLTexture", << "wood_log" >> >>,
       << "CreateGLTexture", << "flower_tile" >> >>,
       << "CreateGLTexture", << "white_plastic" >> >> >>

LoadSceneTexturesCalls ==
    << << "CreateGLTexture", << "steel" >> >>,
       << "CreateGLTexture", << "obsidian" >> >>,
       << "CreateGLTexture", << "orange" >> >>,
       << "CreateGLTexture", << "black" >> >>,
       << "CreateGLTexture", << "tan" >> >>,
       << "CreateGLTexture", << "taupe" >> >>,
       << "CreateGLTexture", << "white_wood" >> >>,
       << "CreateGLTexture", << "red_ceramic" >> >>,
       << "CreateGLTexture", << "wood_log" >> >>,
       << "CreateGLTexture", << "flower_tile" >> >>,
       << "CreateGLTexture", << "white_plastic" >> >>,
       << "BindGLTextures", << >> >> >>

MeshLoadCalls ==
    << << "LoadPlaneMesh", << >> >>,
       << "LoadBoxMesh", << >> >>,
       << "LoadConeMesh", << >> >>,
       << "LoadCylinderMesh", << >> >>,
       << "LoadPrismMesh", << >> >>,
       << "LoadTaperedCylinderMesh", << >> >>,
       << "LoadSphereMesh", << >> >>,
       << "LoadTorusMesh", << >> >> >>

\* a plausible slip: the lights are set up after the meshes are loaded
PrepareSceneCalls_LightsLast ==
    LoadSceneTexturesCalls
       \o << << "DefineObjectMaterials", << >> >> >>
       \o MeshLoadCalls
       \o << << "SetupSceneLights", << >> >> >>

PrepareSceneCalls ==
    LoadSceneTexturesCalls
       \o << << "DefineObjectMaterials", << >> >>,
             << "SetupSceneLights", << >> >> >>
       \o MeshLoadCalls

----------------------------------------------------------------------------
(* SceneManager::RenderScene *)

\* the countertop and the splash plane: the calls of lines 597 to 642, each with its line
PlaneCalls ==
    << << "SetTransformations", << << 25000, 1000, 10000 >>, 0, 0, 0, << 0, 0, 0 >> >> >>,  \* 610
       << "SetTextureUVScale", << 100, 100 >> >>,  \* 613
       << "SetShaderTexture", << "taupe" >> >>,  \* 614
       << "SetShaderMaterial", << "tile" >> >>,  \* 615
       << "DrawPlaneMesh", << >> >>,  \* 617
       << "SetTransformations", << << 25000, 1000, 10000 >>, 90, 0, 0, << 0, 10000, -10000 >> >> >>,  \* 632
       << "SetTextureUVScale", << 100, 100 >> >>,  \* 635
       << "SetShaderTexture", << "white_wood" >> >>,  \* 636
       << "SetShaderMaterial", << "tile" >> >>,  \* 637
       << "DrawPlaneMesh", << >> >> >>  \* 640

\* the lighter: the calls of lines 643 to 836, each with its line
LighterCalls ==
    << << "SetTransformations", << << 600, 620, 500 >>, 0, 0, 0, << 21900, 600, -8600 >> >> >>,  \* 658
       << "SetTextureUVScale", << 100, 100 >> >>,  \* 664
       << "SetShaderTexture", << "black" >> >>,  \* 665
       << "SetShaderMaterial", << "wood" >> >>,  \* 666
       << "DrawSphereMesh", << >> >>,  \* 669
       << "SetTransformations", << << 500, 3000, 500 >>, 0, 0, 90, << 22000, 500, -8600 >> >> >>,  \* 684
       << "SetShaderColor", << 70, 70, 70, 100 >> >>,  \* 687
       << "SetTextureUVScale", << 100, 100 >> >>,  \* 690
       << "SetShaderTexture", << "black" >> >>,  \* 691
       << "SetShaderMaterial", << "wood" >> >>,  \* 692
       << "DrawTaperedCylinderMesh", << >> >>,  \* 695
       << "SetTransformations", << << 500, 3000, 350 >>, 0, 0, 90, << 22000, 700, -8600 >> >> >>,  \* 710
       << "SetTextureUVScale", << 100, 100 >> >>,  \* 713
       << "SetShaderTexture", << "black" >> >>,  \* 714
       << "SetShaderMaterial", << "wood" >> >>,  \* 715
       << "DrawCylinderMesh", << >> >>,  \* 718
       << "SetTransformations", << << 150, 300, 150 >>, 0, 0, 0, << 19900, 1000, -8600 >> >> >>,  \* 733
       << "SetShaderColor", << 0, 0, 0, 100 >> >>,  \* 736
       << "DrawSphereMesh", << >> >>,  \* 739
       << "SetTransformations", << << 500, 1000, 360 >>, 0, 0, 90, << 19000, 700, -8600 >> >> >>,  \* 754
       << "SetTextureUVScale", << 100, 100 >> >>,  \* 757
       << "SetShaderTexture", << "black" >> >>,  \* 758
       << "SetShaderMaterial", << "wood" >> >>,  \* 759
       << "DrawTaperedCylinderMesh", << >> >>,  \* 762
       << "SetTransformations", << << 200, 5000, 200 >>, 0, 0, 90, << 19000, 700, -8600 >> >> >>,  \* 777
       << "SetTextureUVScale", << 100, 100 >> >>,  \* 780
       << "SetShaderTexture", << "steel" >> >>,  \* 781
       << "SetShaderMaterial", << "glass" >> >>,  \* 782
       << "DrawCylinderMesh", << >> >>,  \* 785
       << "SetTransformations", << << 300, 300, 300 >>, 0, 0, 270, << 14000, 700, -8600 >> >> >>,  \* 801
       << "SetTextureUVScale", << 100, 100 >> >>,  \* 804
       << "SetShaderTexture", << "steel" >> >>,  \* 805
       << "SetShaderMaterial", << "glass" >> >>,  \* 806
       << "DrawTaperedCylinderMesh", << >> >>,  \* 809
       << "SetTransformations", << << 300, 1000, 300 >>, 0, 0, 90, << 14000, 700, -8600 >> >> >>,  \* 824
       << "SetShaderColor", << 70, 70, 70, 100 >> >>,  \* 827
       << "SetTextureUVScale", << 100, 100 >> >>,  \* 829
       << "SetShaderTexture", << "steel" >> >>,  \* 830
       << "SetShaderMaterial", << "glass" >> >>,  \* 831
       << "DrawCylinderMesh", << >> >> >>  \* 834

\* the candle: the calls of lines 837 to 891, each with its line
CandleCalls ==
    << << "SetTransformations", << << 3000, 5000, 3000 >>, 0, 0, 0, << 6000, 10, -6300 >> >> >>,  \* 852
       << "SetShaderColor", << 70, 70, 70, 100 >> >>,  \* 855
       << "SetTextureUVScale", << 300, 300 >> >>,  \* 858
       << "SetShaderTexture", << "orange" >> >>,  \* 859
       << "SetShaderMaterial", << "glass" >> >>,  \* 860
       << "DrawCylinderMesh", << >> >>,  \* 863
       << "SetTransformations", << << 3300, 1000, 3300 >>, 0, 0, 0, << 6000, 4950, -6300 >> >> >>,  \* 879
       << "SetShaderColor", << 70, 70, 70, 100 >> >>,  \* 882
       << "SetTextureUVScale", << 100, 100 >> >>,  \* 885
       << "SetShaderTexture", << "black" >> >>,  \* 886
       << "SetShaderMaterial", << "glass" >> >>,  \* 887
       << "DrawCylinderMesh", << >> >> >>  \* 890

\* the butter tray and the chicken on its lid: the calls of lines 892 to 1182, each with its line
ButterTrayCalls ==
    << << "SetTransformations", << << 9000, 500, 4000 >>, 0, 0, 0, << -3000, 300, 3300 >> >> >>,  \* 907
       << "SetShaderColor", << 70, 70, 70, 100 >> >>,  \* 910
       << "SetTextureUVScale", << 300, 300 >> >>,  \* 913
       << "SetShaderTexture", << "red_ceramic" >> >>,  \* 914
       << "SetShaderMaterial", << "ceramic" >> >>,  \* 915
       << "DrawBoxMesh", << >> >>,  \* 918
       << "SetTransformations", << << 500, 2500, 2700 >>, 0, 0, 0, << 500, 1800, 3300 >> >> >>,  \* 933
       << "SetShaderColor", << 70, 70, 70, 100 >> >>,  \* 936
       << "SetTextureUVScale", << 300, 300 >> >>,  \* 939
       << "SetShaderTexture", << "red_ceramic" >> >>,  \* 940
       << "SetShaderMaterial", << "ceramic" >> >>,  \* 941
       << "DrawBoxMesh", << >> >>,  \* 944
       << "SetTransformations", << << 500, 2500, 2700 >>, 0, 0, 0, << -6500, 1800, 3300 >> >> >>,  \* 959
       << "SetShaderColor", << 70, 70, 70, 100 >> >>,  \* 962
       << "SetTextureUVScale", << 300, 300 >> >>,  \* 965
       << "SetShaderTexture", << "red_ceramic" >> >>,  \* 966
       << "SetShaderMaterial", << "ceramic" >> >>,  \* 967
       << "DrawBoxMesh", << >> >>,  \* 970
       << "SetTransformations", << << 500, 2500, 7450 >>, 0, 90, 0, << -3000, 1800, 4400 >> >> >>,  \* 985
       << "SetShaderColor", << 70, 70, 70, 100 >> >>,  \* 988
       << "SetTextureUVScale", << 300, 300 >> >>,  \* 991
       << "SetShaderTexture", << "red_ceramic" >> >>,  \* 992
       << "SetShaderMaterial", << "ceramic" >> >>,  \* 993
       << "DrawBoxMesh", << >> >>,  \* 996
       << "SetTransformations", << << 500, 2500, 7450 >>, 0, 90, 0, << -3000, 1800, 2200 >> >> >>,  \* 1011
       << "SetShaderColor", << 70, 70, 70, 100 >> >>,  \* 1014
       << "SetTextureUVScale", << 300, 300 >> >>,  \* 1017
       << "SetShaderTexture", << "red_ceramic" >> >>,  \* 1018
       << "SetShaderMaterial", << "ceramic" >> >>,  \* 1019
       << "DrawBoxMesh", << >> >>,  \* 1022
       << "SetTransformations", << << 7000, 500, 2000 >>, 0, 0, 0, << -3000, 2800, 3300 >> >> >>,  \* 1037
       << "SetShaderColor", << 70, 70, 70, 100 >> >>,  \* 1040
       << "SetTextureUVScale", << 300, 300 >> >>,  \* 1043
       << "SetShaderTexture", << "red_ceramic" >> >>,  \* 1044
       << "SetShaderMaterial", << "ceramic" >> >>,  \* 1045
       << "DrawBoxMesh", << >> >>,  \* 1048
       << "SetTransformations", << << 300, 500, 300 >>, 0, 0, 0, << -3000, 3100, 3300 >> >> >>,  \* 1063
       << "SetShaderColor", << 70, 70, 70, 100 >> >>,  \* 1066
       << "SetTextureUVScale", << 300, 300 >> >>,  \* 1069
       << "SetShaderTexture", << "orange" >> >>,  \* 1070
       << "SetShaderMaterial", << "cement" >> >>,  \* 1071
       << "DrawTaperedCylinderMesh", << >> >>,  \* 1074
       << "SetTransformations", << << 300, 500, 150 >>, 180, 0, 0, << -3000, 3900, 3300 >> >> >>,  \* 1089
       << "SetShaderColor", << 70, 70, 70, 100 >> >>,  \* 1092
       << "SetTextureUVScale", << 300, 300 >> >>,  \* 1095
       << "SetShaderTexture", << "orange" >> >>,  \* 1096
       << "SetShaderMaterial", << "cement" >> >>,  \* 1097
       << "DrawTaperedCylinderMesh", << >> >>,  \* 1100
       << "SetTransformations", << << 200, 400, 100 >>, 0, 0, 40, << -3110, 3900, 3300 >> >> >>,  \* 1115
       << "SetShaderColor", << 70, 70, 70, 100 >> >>,  \* 1118
       << "SetTextureUVScale", << 300, 300 >> >>,  \* 1121
       << "SetShaderTexture", << "orange" >> >>,  \* 1122
       << "SetShaderMaterial", << "cement" >> >>,  \* 1123
       << "DrawConeMesh", << >> >>,  \* 1126
       << "SetTransformations", << << 200, 600, 100 >>, 0, 0, -40, << -3000, 3900, 3300 >> >> >>,  \* 1141
       << "SetShaderColor", << 70, 70, 70, 100 >> >>,  \* 1144
       << "SetTextureUVScale", << 300, 300 >> >>,  \* 1147
       << "SetShaderTexture", << "orange" >> >>,  \* 1148
       << "SetShaderMaterial", << "cement" >> >>,  \* 1149
       << "DrawConeMesh", << >> >>,  \* 1152
       << "SetTransformations", << << 50, 50, 50 >>, 0, 0, -40, << -2650, 4350, 3300 >> >> >>,  \* 1167
       << "SetShaderColor", << 70, 70, 70, 100 >> >>,  \* 1170
       << "SetTextureUVScale", << 300, 300 >> >>,  \* 1173
       << "SetShaderTexture", << "orange" >> >>,  \* 1174
       << "SetShaderMaterial", << "cement" >> >>,  \* 1175
       << "DrawSphereMesh", << >> >> >>  \* 1178

\* the wooden board and its six tiles: the calls of lines 1183 to 1366, each with its line
TileBoardCalls ==
    << << "SetTransformations", << << 12000, 400, 17000 >>, 0, 0, 0, << -16000, 300, -800 >> >> >>,  \* 1196
       << "SetShaderColor", << 70, 70, 70, 100 >> >>,  \* 1199
       << "SetTextureUVScale", << 100, 100 >> >>,  \* 1202
       << "SetShaderTexture", << "wood_log" >> >>,  \* 1203
       << "SetShaderMaterial", << "wood" >> >>,  \* 1204
       << "DrawBoxMesh", << >> >>,  \* 1207
       << "SetTransformations", << << 5000, 200, 5000 >>, 0, 0, 0, << -18500, 450, -5500 >> >> >>,  \* 1222
       << "SetShaderColor", << 70, 70, 70, 100 >> >>,  \* 1225
       << "SetTextureUVScale", << 100, 100 >> >>,  \* 1228
       << "SetShaderTexture", << "flower_tile" >> >>,  \* 1229
       << "SetShaderMaterial", << "ceramic" >> >>,  \* 1230
       << "DrawBoxMesh", << >> >>,  \* 1233
       << "SetTransformations", << << 5000, 200, 5000 >>, 0, 0, 0, << -13500, 450, -5500 >> >> >>,  \* 1248
       << "SetShaderColor", << 70, 70, 70, 100 >> >>,  \* 1251
       << "SetTextureUVScale", << 100, 100 >> >>,  \* 1254
       << "SetShaderTexture", << "flower_tile" >> >>,  \* 1255
       << "SetShaderMaterial", << "ceramic" >> >>,  \* 1256
       << "DrawBoxMesh", << >> >>,  \* 1259
       << "SetTransformations", << << 5000, 200, 5000 >>, 0, 0, 0, << -18500, 450, -500 >> >> >>,  \* 1275
       << "SetShaderColor", << 70, 70, 70, 100 >> >>,  \* 1278
       << "SetTextureUVScale", << 100, 100 >> >>,  \* 1281
       << "SetShaderTexture", << "flower_tile" >> >>,  \* 1282
       << "SetShaderMaterial", << "ceramic" >> >>,  \* 1283
       << "DrawBoxMesh", << >> >>,  \* 1286
       << "SetTransformations", << << 5000, 200, 5000 >>, 0, 0, 0, << -13500, 450, -500 >> >> >>,  \* 1301
       << "SetShaderColor", << 70, 70, 70, 100 >> >>,  \* 1304
       << "SetTextureUVScale", << 100, 100 >> >>,  \* 1307
       << "SetShaderTexture", << "flower_tile" >> >>,  \* 1308
       << "SetShaderMaterial", << "ceramic" >> >>,  \* 1309
       << "DrawBoxMesh", << >> >>,  \* 1312
       << "SetTransformations", << << 5000, 200, 5000 >>, 0, 0, 0, << -18500, 450, 4500 >> >> >>,  \* 1328
       << "SetShaderColor", << 70, 70, 70, 100 >> >>,  \* 1331
       << "SetTextureUVScale", << 100, 100 >> >>,  \* 1334
       << "SetShaderTexture", << "flower_tile" >> >>,  \* 1335
       << "SetShaderMaterial", << "ceramic" >> >>,  \* 1336
       << "DrawBoxMesh", << >> >>,  \* 1339
       << "SetTransformations", << << 5000, 200, 5000 >>, 0, 0, 0, << -13500, 450, 4500 >> >> >>,  \* 1354
       << "SetShaderColor", << 70, 70, 70, 100 >> >>,  \* 1357
       << "SetTextureUVScale", << 100, 100 >> >>,  \* 1360
       << "SetShaderTexture", << "flower_tile" >> >>,  \* 1361
       << "SetShaderMaterial", << "ceramic" >> >>,  \* 1362
       << "DrawBoxMesh", << >> >> >>  \* 1365

\* the toaster: the calls of lines 1367 to 1940, each with its line
ToasterCalls ==
    << << "SetTransformations", << << 1500, 10500, 13000 >>, 0, 0, 0, << -13000, 5800, -800 >> >> >>,  \* 1382
       << "SetShaderColor", << 70, 70, 70, 100 >> >>,  \* 1385
       << "SetTextureUVScale", << 100, 100 >> >>,  \* 1388
       << "SetShaderTexture", << "white_plastic" >> >>,  \* 1389
       << "SetShaderMaterial", << "cement" >> >>,  \* 1390
       << "DrawBoxMesh", << >> >>,  \* 1393
       << "SetTransformations", << << 1500, 10500, 13000 >>, 0, 0, 0, << -19000, 5800, -800 >> >> >>,  \* 1408
       << "SetShaderColor", << 70, 70, 70, 100 >> >>,  \* 1411
       << "SetTextureUVScale", << 100, 100 >> >>,  \* 1414
       << "SetShaderTexture", << "white_plastic" >> >>,  \* 1415
       << "SetShaderMaterial", << "cement" >> >>,  \* 1416
       << "DrawBoxMesh", << >> >>,  \* 1419
       << "SetTransformations", << << 6500, 10500, 2200 >>, 0, 0, 0, << -16000, 5799, -6200 >> >> >>,  \* 1434
       << "SetShaderColor", << 70, 70, 70, 100 >> >>,  \* 1437
       << "SetTextureUVScale", << 100, 100 >> >>,  \* 1440
       << "SetShaderTexture", << "white_plastic" >> >>,  \* 1441
       << "SetShaderMaterial", << "cement" >> >>,  \* 1442
       << "DrawBoxMesh", << >> >>,  \* 1445
       << "SetTransformations", << << 6800, 4500, 13000 >>, 0, 0, 0, << -16000, 2800, -800 >> >> >>,  \* 1461
       << "SetShaderColor", << 70, 70, 70, 100 >> >>,  \* 1464
       << "SetTextureUVScale", << 100, 100 >> >>,  \* 1467
       << "SetShaderTexture", << "white_plastic" >> >>,  \* 1468
       << "SetShaderMaterial", << "cement" >> >>,  \* 1469
       << "DrawBoxMesh", << >> >>,  \* 1472
       << "SetTransformations", << << 4500, 10500, 500 >>, 0, 0, 0, << -16000, 6000, -4800 >> >> >>,  \* 1487
       << "SetShaderColor", << 70, 70, 70, 100 >> >>,  \* 1490
       << "SetTextureUVScale", << 100, 100 >> >>,  \* 1493
       << "SetShaderTexture", << "steel" >> >>,  \* 1494
       << "SetShaderMaterial", << "glass" >> >>,  \* 1495
       << "DrawBoxMesh", << >> >>,  \* 1498
       << "SetTransformations", << << 4500, 10500, 500 >>, 0, 0, 0, << -16000, 6000, 2800 >> >> >>,  \* 1513
       << "SetShaderColor", << 70, 70, 70, 100 >> >>,  \* 1516
       << "SetTextureUVScale", << 100, 100 >> >>,  \* 1519
       << "SetShaderTexture", << "steel" >> >>,  \* 1520
       << "SetShaderMaterial", << "glass" >> >>,  \* 1521
       << "DrawBoxMesh", << >> >>,  \* 1524
       << "SetTransformations", << << 500, 10500, 7600 >>, 0, 0, 0, << -14000, 6000, -800 >> >> >>,  \* 1538
       << "SetShaderColor", << 70, 70, 70, 100 >> >>,  \* 1541
       << "SetTextureUVScale", << 100, 100 >> >>,  \* 1544
       << "SetShaderTexture", << "steel" >> >>,  \* 1545
       << "SetShaderMaterial", << "glass" >> >>,  \* 1546
       << "DrawBoxMesh", << >> >>,  \* 1549
       << "SetTransformations", << << 500, 10500, 7600 >>, 0, 0, 0, << -18000, 6000, -800 >> >> >>,  \* 1564
       << "SetShaderColor", << 70, 70, 70, 100 >> >>,  \* 1567
       << "SetTextureUVScale", << 100, 100 >> >>,  \* 1570
       << "SetShaderTexture", << "steel" >> >>,  \* 1571
       << "SetShaderMaterial", << "glass" >> >>,  \* 1572
       << "DrawBoxMesh", << >> >>,  \* 1575
       << "SetTransformations", << << 300, 10500, 7600 >>, 0, 0, 0, << -16000, 6000, -800 >> >> >>,  \* 1590
       << "SetShaderColor", << 70, 70, 70, 100 >> >>,  \* 1593
       << "SetTextureUVScale", << 100, 100 >> >>,  \* 1596
       << "SetShaderTexture", << "steel" >> >>,  \* 1597
       << "SetShaderMaterial", << "glass" >> >>,  \* 1598
       << "DrawBoxMesh", << >> >>,  \* 1601
       << "SetTransformations", << << 300, 7000, 2000 >>, 0, 0, 0, << -14750, 7550, 4700 >> >> >>,  \* 1616
       << "SetShaderColor", << 70, 70, 70, 100 >> >>,  \* 1619
       << "SetTextureUVScale", << 100, 100 >> >>,  \* 1622
       << "SetShaderTexture", << "steel" >> >>,  \* 1623
       << "SetShaderMaterial", << "glass" >> >>,  \* 1624
       << "DrawBoxMesh", << >> >>,  \* 1627
       << "SetTransformations", << << 300, 7000, 2000 >>, 0, 0, 0, << -17250, 7550, 4700 >> >> >>,  \* 1642
       << "SetShaderColor", << 70, 70, 70, 100 >> >>,  \* 1645
       << "SetTextureUVScale", << 100, 100 >> >>,  \* 1648
       << "SetShaderTexture", << "steel" >> >>,  \* 1649
       << "SetShaderMaterial", << "glass" >> >>,  \* 1650
       << "DrawBoxMesh", << >> >>,  \* 1653
       << "SetTransformations", << << 300, 7000, 2500 >>, 0, 90, 0, << -16000, 7550, 3850 >> >> >>,  \* 1668
       << "SetShaderColor", << 70, 70, 70, 100 >> >>,  \* 1671
       << "SetTextureUVScale", << 100, 100 >> >>,  \* 1674
       << "SetShaderTexture", << "steel" >> >>,  \* 1675
       << "SetShaderMaterial", << "glass" >> >>,  \* 1676
       << "DrawBoxMesh", << >> >>,  \* 1679
       << "SetTransformations", << << 1699, 300, 2500 >>, 0, 90, 0, << -16000, 5200, 4850 >> >> >>,  \* 1694
       << "SetShaderColor", << 70, 70, 70, 100 >> >>,  \* 1697
       << "SetTextureUVScale", << 100, 100 >> >>,  \* 1700
       << "SetShaderTexture", << "steel" >> >>,  \* 1701
       << "SetShaderMaterial", << "glass" >> >>,  \* 1702
       << "DrawBoxMesh", << >> >>,  \* 1705
       << "SetTransformations", << << 6500, 10500, 1000 >>, 0, 0, 0, << -16000, 5799, 3200 >> >> >>,  \* 1720
       << "SetShaderColor", << 70, 70, 70, 100 >> >>,  \* 1723
       << "SetTextureUVScale", << 100, 100 >> >>,  \* 1726
       << "SetShaderTexture", << "white_plastic" >> >>,  \* 1727
       << "SetShaderMaterial", << "cement" >> >>,  \* 1728
       << "DrawBoxMesh", << >> >>,  \* 1731
       << "SetTransformations", << << 900, 7000, 2000 >>, 0, 0, 0, << -14150, 7550, 4700 >> >> >>,  \* 1746
       << "SetShaderColor", << 70, 70, 70, 100 >> >>,  \* 1749
       << "SetTextureUVScale", << 100, 100 >> >>,  \* 1752
       << "SetShaderTexture", << "white_plastic" >> >>,  \* 1753
       << "SetShaderMaterial", << "cement" >> >>,  \* 1754
       << "DrawBoxMesh", << >> >>,  \* 1757
       << "SetTransformations", << << 900, 7000, 2000 >>, 0, 0, 0, << -17850, 7550, 4700 >> >> >>,  \* 1772
       << "SetShaderColor", << 70, 70, 70, 100 >> >>,  \* 1775
       << "SetTextureUVScale", << 100, 100 >> >>,  \* 1778
       << "SetShaderTexture", << "white_plastic" >> >>,  \* 1779
       << "SetShaderMaterial", << "cement" >> >>,  \* 1780
       << "DrawBoxMesh", << >> >>,  \* 1783
       << "SetTransformations", << << 1000, 2000, 1000 >>, 90, 0, 0, << -16000, 10000, 3700 >> >> >>,  \* 1798
       << "SetShaderColor", << 70, 70, 70, 100 >> >>,  \* 1801
       << "SetTextureUVScale", << 100, 100 >> >>,  \* 1804
       << "SetShaderTexture", << "white_plastic" >> >>,  \* 1805
       << "SetShaderMaterial", << "cement" >> >>,  \* 1806
       << "DrawCylinderMesh", << >> >>,  \* 1809
       << "SetTransformations", << << 2000, 1000, 2400 >>, 0, 0, 0, << -16000, 9500, 4499 >> >> >>,  \* 1824
       << "SetShaderColor", << 70, 70, 70, 100 >> >>,  \* 1827
       << "SetTextureUVScale", << 100, 100 >> >>,  \* 1830
       << "SetShaderTexture", << "white_plastic" >> >>,  \* 1831
       << "SetShaderMaterial", << "cement" >> >>,  \* 1832
       << "DrawBoxMesh", << >> >>,  \* 1835
       << "SetTransformations", << << 1000, 750, 1000 >>, 90, 0, 0, << -16000, 3500, 5499 >> >> >>,  \* 1850
       << "SetShaderColor", << 70, 70, 70, 100 >> >>,  \* 1853
       << "SetTextureUVScale", << 100, 100 >> >>,  \* 1856
       << "SetShaderTexture", << "white_plastic" >> >>,  \* 1857
       << "SetShaderMaterial", << "cement" >> >>,  \* 1858
       << "DrawTaperedCylinderMesh", << >> >>,  \* 1861
       << "SetTransformations", << << 200, 1000, 200 >>, 90, 90, 0, << -14000, 3500, 5700 >> >> >>,  \* 1876
       << "SetShaderColor", << 70, 70, 70, 100 >> >>,  \* 1879
       << "SetTextureUVScale", << 100, 100 >> >>,  \* 1882
       << "SetShaderTexture", << "white_plastic" >> >>,  \* 1883
       << "SetShaderMaterial", << "cement" >> >>,  \* 1884
       << "DrawCylinderMesh", << >> >>,  \* 1887
       << "SetTransformations", << << 200, 1000, 200 >>, 90, 90, 0, << -14000, 4300, 5700 >> >> >>,  \* 1902
       << "SetShaderColor", << 70, 70, 70, 100 >> >>,  \* 1905
       << "SetTextureUVScale", << 100, 100 >> >>,  \* 1908
       << "SetShaderTexture", << "white_plastic" >> >>,  \* 1909
       << "SetShaderMaterial", << "cement" >> >>,  \* 1910
       << "DrawCylinderMesh", << >> >>,  \* 1913
       << "SetTransformations", << << 200, 1000, 200 >>, 90, 90, 0, << -14000, 5100, 5700 >> >> >>,  \* 1928
       << "SetShaderColor", << 70, 70, 70, 100 >> >>,  \* 1931
       << "SetTextureUVScale", << 100, 100 >> >>,  \* 1934
       << "SetShaderTexture", << "white_plastic" >> >>,  \* 1935
       << "SetShaderMaterial", << "cement" >> >>,  \* 1936
       << "DrawCylinderMesh", << >> >> >>  \* 1939

\* a plausible slip: the materials are defined again in every frame
RenderSceneCalls_DefinesMaterials ==
    << << "DefineObjectMaterials", << >> >> >>
       \o PlaneCalls \o LighterCalls \o CandleCalls \o ButterTrayCalls
       \o TileBoardCalls \o ToasterCalls

RenderSceneCalls ==
    PlaneCalls \o LighterCalls \o CandleCalls \o ButterTrayCalls
       \o TileBoardCalls \o ToasterCalls

----------------------------------------------------------------------------
(* A call of one method from the body of another *)

LoadMeshes ==
    { "LoadPlaneMesh", "LoadBoxMesh", "LoadConeMesh", "LoadCylinderMesh",
      "LoadPrismMesh", "LoadTaperedCylinderMesh", "LoadSphereMesh",
      "LoadTorusMesh" }

DrawMeshes ==
    { "DrawPlaneMesh", "DrawBoxMesh", "DrawConeMesh", "DrawCylinderMesh",
      "DrawTaperedCylinderMesh", "DrawSphereMesh" }

\* the call c is made; a file CreateGLTexture opens decodes to one of images
Perform(c, images) ==
    LET op == c[1]
        args == c[2]
    IN  \/ /\ op = "CreateGLTexture"
           /\ \E img \in images : CreateGLTexture(img, args[1])
        \/ /\ op = "BindGLTextures"
           /\ BindGLTextures
        \/ /\ op = "DefineObjectMaterials"
           /\ DefineObjectMaterials
        \/ /\ op = "SetupSceneLights"
           /\ SetupSceneLights
        \/ /\ op \in LoadMeshes
           /\ LoadMesh(op)
        \/ /\ op = "SetTransformations"
           /\ SetTransformations(args[1], args[2], args[3], args[4], args[5])
        \/ /\ op = "SetShaderColor"
           /\ SetShaderColor(args[1], args[2], args[3], args[4])
        \/ /\ op = "SetTextureUVScale"
           /\ SetTextureUVScale(args[1], args[2])
        \/ /\ op = "SetShaderTexture"
           /\ SetShaderTexture(args[1])
        \/ /\ op = "SetShaderMaterial"
           /\ SetShaderMaterial(args[1])
        \/ /\ op \in DrawMeshes
           /\ DrawMesh(op)

\* the method is entered
Enter(method) ==
    /\ life = "alive"
    /\ pc = Idle
    /\ pc' = << method, 1 >>
    /\ call' = Call(method, << >>, Void, {})
    /\ UNCHANGED << m_pShaderManager, m_textureIDs, m_loadedTextures,
                    m_objectMaterials, glTextures, glActiveUnit, glUnits,
                    uniforms, life >>

\* the method makes its next call, and returns after its last
Step(method, calls, images) ==
    /\ pc[1] = method
    /\ Perform(calls[pc[2]], images)
    /\ pc' = IF pc[2] = Len(calls) THEN Idle ELSE << method, pc[2] + 1 >>

LoadSceneTextures(images) ==
    \/ Enter("LoadSceneTextures")
    \/ Step("LoadSceneTextures", LoadSceneTexturesCalls, images)

PrepareScene(images) ==
    \/ Enter("PrepareScene")
    \/ Step("PrepareScene", PrepareSceneCalls, images)

RenderScene ==
    \/ Enter("RenderScene")
    \/ Step("RenderScene", RenderSceneCalls, {})

----------------------------------------------------------------------------
(* The callers: any sequence of calls, with arguments from small sets *)

\* the two flat colours RenderScene uses
Colors == { << 70, 70, 70, 100 >>, << 0, 0, 0, 100 >> }
\* the two UV scales RenderScene uses
UVScales == { << 100, 100 >>, << 300, 300 >> }
\* material tags the callers ask for
MaterialTags == {"metal", "glass", "missing"}

\* the texture registry and the calls that read it
Next ==
    \/ /\ \E img \in Images, tag \in LoadTags :
             /\ Cardinality(glTextures) < MaxGen
             /\ CreateGLTexture(img, tag)
       /\ UNCHANGED pc
    \/ BindGLTextures /\ UNCHANGED pc
    \/ /\ Cardinality(glTextures) + m_loadedTextures <= MaxGen
       /\ DestroyGLTextures
       /\ UNCHANGED pc
    \/ /\ \E c \in Colors : SetShaderColor(c[1], c[2], c[3], c[4])
       /\ UNCHANGED pc
    \/ /\ \E tag \in LookupTags : SetShaderTexture(tag)
       /\ UNCHANGED pc
    \/ Destructor /\ UNCHANGED pc

Spec == Init /\ [][Next]_vars

\* the material catalog and the calls that read it
NextMaterial ==
    \/ /\ Len(m_objectMaterials) < 7 * MaxDefines
       /\ DefineObjectMaterials
       /\ UNCHANGED pc
    \/ /\ \E tag \in MaterialTags : SetShaderMaterial(tag)
       /\ UNCHANGED pc
    \/ /\ \E c \in Colors : SetShaderColor(c[1], c[2], c[3], c[4])
       /\ UNCHANGED pc
    \/ /\ \E uv \in UVScales : SetTextureUVScale(uv[1], uv[2])
       /\ UNCHANGED pc
    \/ Destructor /\ UNCHANGED pc

SpecMaterial == Init /\ [][NextMaterial]_vars

\* a caller that keeps loading textures, past the size of m_textureIDs
NextCapacity ==
    \/ /\ \E img \in RegisteredImages, tag \in CapacityTags :
             /\ m_loadedTextures <= MaxTextureSlots
             /\ CreateGLTexture(img, tag)
       /\ UNCHANGED pc
    \/ BindGLTextures /\ UNCHANGED pc

SpecCapacity == Init /\ [][NextCapacity]_vars

\* the texture registry and its two lookups
NextLookup ==
    \/ /\ \E img \in Images, tag \in LoadTags :
             /\ Cardinality(glTextures) < MaxGen
             /\ CreateGLTexture(img, tag)
       /\ UNCHANGED pc
    \/ /\ Cardinality(glTextures) + m_loadedTextures <= MaxGen
       /\ DestroyGLTextures
       /\ UNCHANGED pc
    \/ /\ \E tag \in LookupTags : CallFindTextureID(tag)
       /\ UNCHANGED pc
    \/ /\ \E tag \in LookupTags : CallFindTextureSlot(tag)
       /\ UNCHANGED pc

SpecLookup == Init /\ [][NextLookup]_vars

\* the arguments of the transformation: whole scales, zero too, right angles
\* about every axis, and positions on either side of the origin
ScaleVectors ==
    { << 1000 * x, 1000 * y, 1000 * z >> : x, y, z \in 0 .. MaxScale }
RightAngles == {0, 90, 180, 270}
\* the angles RenderScene turns a mesh about Z by
ZAngles == RightAngles \cup {40, -40}
PositionVectors ==
    { << 1000 * x, 1000 * y, 1000 * (x + 2 * y) >> :
         x, y \in (0 - MaxPosition) .. MaxPosition }

\* a fresh SceneManager whose caller sets one transformation
NextTransform ==
    \/ /\ call.op = "SceneManager"
       /\ \E scaleXYZ \in ScaleVectors, x, y \in RightAngles, z \in ZAngles,
             positionXYZ \in PositionVectors :
             SetTransformations(scaleXYZ, x, y, z, positionXYZ)
       /\ UNCHANGED pc
    \/ Destructor /\ UNCHANGED pc

SpecTransform == Init /\ [][NextTransform]_vars

\* the draws of the box and of the sphere
Meshes == {"DrawBoxMesh", "DrawSphereMesh"}

\* two of the transformations of RenderScene: the plane of the counter and a
\* tapered cylinder turned about Z
BinderTransforms ==
    { << << 25000, 1000, 10000 >>, 0, 0, 0, << 0, 0, 0 >> >>,
      << << 500, 3000, 500 >>, 0, 0, 90, << 22000, 500, -8600 >> >> }

\* what a frame does for one mesh, in any order and on any registry and catalog
NextBinder ==
    \/ /\ \E img \in RegisteredImages, tag \in CapacityTags :
             /\ m_loadedTextures < MaxBinderLoads
             /\ CreateGLTexture(img, tag)
       /\ UNCHANGED pc
    \/ /\ Len(m_objectMaterials) < 7 * MaxDefines
       /\ DefineObjectMaterials
       /\ UNCHANGED pc
    \/ /\ \E t \in BinderTransforms : SetTransformations(t[1], t[2], t[3], t[4], t[5])
       /\ UNCHANGED pc
    \/ /\ \E c \in Colors : SetShaderColor(c[1], c[2], c[3], c[4])
       /\ UNCHANGED pc
    \/ /\ \E tag \in CapacityTags \cup {"missing"} : SetShaderTexture(tag)
       /\ UNCHANGED pc
    \/ /\ \E uv \in UVScales : SetTextureUVScale(uv[1], uv[2])
       /\ UNCHANGED pc
    \/ /\ \E tag \in MaterialTags : SetShaderMaterial(tag)
       /\ UNCHANGED pc
    \/ /\ \E mesh \in Meshes : DrawMesh(mesh)
       /\ UNCHANGED pc
    \/ Destructor /\ UNCHANGED pc

SpecBinder == Init /\ [][NextBinder]_vars

\* what the files of LoadSceneTextures decode to: any image while fewer than
\* MaxFailedLoads of the loads made so far have failed
SceneImages ==
    IF (pc[2] - 1) - m_loadedTextures < MaxFailedLoads
    THEN Images
    ELSE RegisteredImages

SceneLookupTags == {"steel", "missing"}

\* the application: it prepares the scene once, renders frame after frame,
\* looks textures up between frames, and may render without having prepared
NextScene ==
    \/ /\ pc = Idle => Len(m_objectMaterials) = 0
       /\ PrepareScene(SceneImages)
    \/ RenderScene
    \/ /\ pc = Idle
       /\ \E tag \in SceneLookupTags : CallFindTextureID(tag)
       /\ UNCHANGED pc
    \/ /\ pc = Idle
       /\ \E tag \in SceneLookupTags : CallFindTextureSlot(tag)
       /\ UNCHANGED pc
    \/ /\ pc = Idle
       /\ Destructor
       /\ UNCHANGED pc

SpecScene == Init /\ [][NextScene]_vars

\* the textures of the scene are loaded once, and every file may fail to load
NextLoad ==
    \/ /\ pc = Idle => call.op = "SceneManager"
       /\ LoadSceneTextures(Images)

SpecLoad == Init /\ [][NextLoad]_vars

----------------------------------------------------------------------------
(* What the claims speak of *)

Registered(tag) ==
    \E i \in 0 .. (m_loadedTextures - 1) : m_textureIDs[i].tag = tag

\* the smallest index whose entry carries the tag
FirstIndex(tag) ==
    CHOOSE i \in 0 .. (m_loadedTextures - 1) :
        /\ m_textureIDs[i].tag = tag
        /\ \A j \in 0 .. (i - 1) : m_textureIDs[j].tag # tag

DistinctTags ==
    \A i, j \in 0 .. (m_loadedTextures - 1) :
        i # j => m_textureIDs[i].tag # m_textureIDs[j].tag

\* the step is a call of CreateGLTexture whose image decoded with 3 or 4 channels
LoadedStep ==
    /\ call'.op = "CreateGLTexture"
    /\ call'.args[1].image
    /\ call'.args[1].colorChannels \in {3, 4}

\* the step is a call of CreateGLTexture whose image decoded with another
\* channel count
UnsupportedStep ==
    /\ call'.op = "CreateGLTexture"
    /\ call'.args[1].image
    /\ call'.args[1].colorChannels \notin {3, 4}

----------------------------------------------------------------------------
\* C1: while the registry has a free slot and the tags are pairwise distinct, a
\* load whose image decodes with 3 or 4 channels returns true, raises
\* m_loadedTextures by exactly 1, stores (tag, a new texture name) at the index
\* that was the count before the call and leaves the earlier entries alone;
\* FindTextureSlot(tag) then returns that index and FindTextureID(tag) that name.
C1_LoadRegistersAtNextIndex ==
    [][ ( /\ LoadedStep
          /\ m_loadedTextures < MaxTextureSlots
          /\ DistinctTags
          /\ ~Registered(call'.args[2]) )
        => LET tag == call'.args[2]
               handle == m_textureIDs'[m_loadedTextures].ID
           IN  /\ call'.ret = << TRUE >>
               /\ m_loadedTextures' = m_loadedTextures + 1
               /\ m_textureIDs'[m_loadedTextures].tag = tag
               /\ handle \notin glTextures /\ handle \in glTextures'
               /\ \A i \in 0 .. (m_loadedTextures - 1) :
                     m_textureIDs'[i] = m_textureIDs[i]
               /\ FindTextureSlotIn(m_textureIDs', m_loadedTextures', tag)
                    = m_loadedTextures
               /\ FindTextureIDIn(m_textureIDs', m_loadedTextures', tag) = handle
               /\ \A i \in 0 .. (m_loadedTextures - 1) :
                     /\ FindTextureSlotIn(m_textureIDs', m_loadedTextures',
                                          m_textureIDs[i].tag) = i
                     /\ FindTextureIDIn(m_textureIDs', m_loadedTextures',
                                        m_textureIDs[i].tag) = m_textureIDs[i].ID
      ]_vars

\* three loads with three distinct tags have registered at the indices 0, 1, 2
C1_Witness ==
    /\ call.op = "CreateGLTexture" /\ call.ret = << TRUE >>
    /\ m_loadedTextures = 3
    /\ DistinctTags
    /\ FindTextureSlot(call.args[2]) = 2

----------------------------------------------------------------------------
\* C2: the registered-texture count never exceeds the capacity of 16 and no
\* entry is written at an index at or beyond the capacity (a load into a full
\* registry fails).
C2_CapacityRespected ==
    /\ m_loadedTextures <= MaxTextureSlots
    /\ life # "out_of_bounds_write"

----------------------------------------------------------------------------
\* C3: SetShaderMaterial with a tag that is absent from the catalog writes
\* nothing to the shader: the three material uniforms keep their values, the
\* catalog being empty or not.
C3_AbsentMaterialWritesNothing ==
    [][ ( /\ call'.op = "SetShaderMaterial"
          /\ \A k \in DOMAIN m_objectMaterials :
                m_objectMaterials[k].tag # call'.args[1] )
        => /\ call'.writes = {}
           /\ \A name \in MaterialUniforms : uniforms'[name] = uniforms[name]
      ]_vars

----------------------------------------------------------------------------
\* C4: after DestroyGLTextures the registry is empty: the count is 0 and neither
\* FindTextureSlot nor FindTextureID resolves any tag.
C4_DestroyEmptiesRegistry ==
    call.op = "DestroyGLTextures"
    => /\ m_loadedTextures = 0
       /\ \A tag \in LookupTags :
             FindTextureSlot(tag) = -1 /\ FindTextureID(tag) = -1

----------------------------------------------------------------------------
\* C5: SetShaderTexture with a tag that is not registered pushes neither slot 0
\* nor the sentinel -1 as the sampler value.
C5_UnknownTagPushesNoSlot ==
    ( /\ call.op = "SetShaderTexture"
      /\ ~Registered(call.args[1])
      /\ g_TextureValueName \in call.writes )
    => /\ uniforms[g_TextureValueName] # << 0 >>
       /\ uniforms[g_TextureValueName] # << -1 >>

----------------------------------------------------------------------------
\* C6: with a shader manager, SetShaderTexture with a tag that is not registered
\* pushes -1 as objectTexture and 1 (true) as bUseTexture; no other uniform
\* changes, nothing else changes, and the call ends without an error.
C6_UnknownTagPushesSentinel ==
    [][ ( /\ call'.op = "SetShaderTexture"
          /\ m_pShaderManager # "NULL"
          /\ ~Registered(call'.args[1]) )
        => /\ uniforms'[g_TextureValueName] = << -1 >>
           /\ uniforms'[g_UseTextureName] = << 1 >>
           /\ \A name \in UniformNames \ {g_TextureValueName, g_UseTextureName} :
                 uniforms'[name] = uniforms[name]
           /\ call'.writes = {g_TextureValueName, g_UseTextureName}
           /\ call'.ret = Void
           /\ life' = "alive"
           /\ UNCHANGED << m_textureIDs, m_loadedTextures >>
      ]_vars

\* the sentinel is in the sampler although a texture is registered
C6_Witness ==
    /\ call.op = "SetShaderTexture" /\ call.args[1] = "missing"
    /\ m_loadedTextures > 0
    /\ uniforms[g_TextureValueName] = << -1 >>

----------------------------------------------------------------------------
\* C7: with a shader manager, SetShaderTexture with a registered tag pushes the
\* index of the first entry carrying the tag as objectTexture and 1 (true) as
\* bUseTexture; with "steel" loaded first, SetShaderTexture("steel") pushes 0.
C7_RegisteredTagPushesSlot ==
    ( /\ call.op = "SetShaderTexture"
      /\ m_pShaderManager # "NULL"
      /\ Registered(call.args[1]) )
    => /\ uniforms[g_TextureValueName] = << FirstIndex(call.args[1]) >>
       /\ uniforms[g_UseTextureName] = << 1 >>
       /\ ( (call.args[1] = "steel" /\ m_textureIDs[0].tag = "steel")
            => uniforms[g_TextureValueName] = << 0 >> )

\* a tag registered twice, at 1 and at 2, is pushed as slot 1
C7_Witness ==
    /\ call.op = "SetShaderTexture"
    /\ m_loadedTextures = 3
    /\ m_textureIDs[0].tag = "steel"
    /\ m_textureIDs[1].tag = call.args[1]
    /\ m_textureIDs[2].tag = call.args[1]
    /\ uniforms[g_TextureValueName] = << 1 >>

----------------------------------------------------------------------------
\* C8: BindGLTextures binds the i-th registered texture name to texture unit i
\* for every i below the count; when the registered tags are pairwise distinct,
\* FindTextureSlot maps the i-th tag to i, an injection into [0, N).
C8_BindFollowsRegistrationOrder ==
    call.op = "BindGLTextures"
    => /\ \A i \in 0 .. (m_loadedTextures - 1) : glUnits[i] = m_textureIDs[i].ID
       /\ DistinctTags =>
            /\ \A i \in 0 .. (m_loadedTextures - 1) :
                  FindTextureSlot(m_textureIDs[i].tag) = i
            /\ \A i, j \in 0 .. (m_loadedTextures - 1) :
                  i # j => FindTextureSlot(m_textureIDs[i].tag)
                             # FindTextureSlot(m_textureIDs[j].tag)

\* three textures with distinct tags are bound to the units 0, 1, 2
C8_Witness ==
    /\ call.op = "BindGLTextures"
    /\ m_loadedTextures = 3
    /\ DistinctTags
    /\ glUnits[2] = m_textureIDs[2].ID

----------------------------------------------------------------------------
\* C9: a load of a tag that is already registered is not rejected: it returns
\* true and adds a second entry with the tag; in every state FindTextureSlot(tag)
\* is the index of the earliest entry with the tag and FindTextureID(tag) is
\* that entry's texture name.
C9_DuplicateTagFirstWins ==
    /\ [][ ( /\ LoadedStep
             /\ m_loadedTextures < MaxTextureSlots
             /\ Registered(call'.args[2]) )
           => /\ call'.ret = << TRUE >>
              /\ m_loadedTextures' = m_loadedTextures + 1
              /\ m_textureIDs'[m_loadedTextures].tag = call'.args[2]
              /\ m_textureIDs'[FirstIndex(call'.args[2])].tag = call'.args[2]
              /\ FindTextureSlotIn(m_textureIDs', m_loadedTextures', call'.args[2])
                   = FirstIndex(call'.args[2])
              /\ FindTextureIDIn(m_textureIDs', m_loadedTextures', call'.args[2])
                   = m_textureIDs[FirstIndex(call'.args[2])].ID
         ]_vars
    /\ [](life = "alive" =>
            \A tag \in LoadTags :
               Registered(tag) =>
                  /\ FindTextureSlot(tag) = FirstIndex(tag)
                  /\ FindTextureID(tag) = m_textureIDs[FirstIndex(tag)].ID)

\* the same tag sits at 0 and at 2, with different texture names, and resolves
\* to 0
C9_Witness ==
    /\ m_loadedTextures = 3
    /\ m_textureIDs[0].tag = m_textureIDs[2].tag
    /\ m_textureIDs[0].ID # m_textureIDs[2].ID
    /\ FindTextureSlot(m_textureIDs[2].tag) = 0
    /\ FindTextureID(m_textureIDs[2].tag) = m_textureIDs[0].ID

----------------------------------------------------------------------------
\* C10, as claimed: after a load whose image has a channel count other than 3 or
\* 4, CreateGLTexture has returned false and the tag of the failed load does not
\* resolve.
C10_FailedTagDoesNotResolve ==
    ( /\ call.op = "CreateGLTexture"
      /\ call.args[1].image
      /\ call.args[1].colorChannels \notin {3, 4} )
    => /\ call.ret = << FALSE >>
       /\ FindTextureSlot(call.args[2]) = -1
       /\ FindTextureID(call.args[2]) = -1

\* C10, amended: a load whose image has a channel count other than 3 or 4
\* returns false and leaves the registry as it was: the count and every entry
\* are unchanged, and every tag, the failed load's too, resolves as before the
\* call (the failed load's tag not at all unless an earlier load registered it).
C10_UnsupportedLeavesRegistry ==
    [][ UnsupportedStep
        => /\ call'.ret = << FALSE >>
           /\ m_loadedTextures' = m_loadedTextures
           /\ m_textureIDs' = m_textureIDs
           /\ \A tag \in LookupTags :
                 /\ FindTextureSlotIn(m_textureIDs', m_loadedTextures', tag)
                      = FindTextureSlot(tag)
                 /\ FindTextureIDIn(m_textureIDs', m_loadedTextures', tag)
                      = FindTextureID(tag)
           /\ ~Registered(call'.args[2])
                => FindTextureSlotIn(m_textureIDs', m_loadedTextures',
                                     call'.args[2]) = -1
      ]_vars

\* a one-channel load has failed beside two registered textures, its tag unknown
C10_Witness ==
    /\ call.op = "CreateGLTexture"
    /\ call.args[1].image /\ call.args[1].colorChannels = 1
    /\ call.ret = << FALSE >>
    /\ m_loadedTextures = 2
    /\ FindTextureSlot(call.args[2]) = -1

----------------------------------------------------------------------------
\* C11: when stbi_load returns no image (the file cannot be read or parsed),
\* CreateGLTexture returns false, makes no texture object, binds nothing, and
\* leaves the count and every entry of the registry as they were.
C11_DecodeFailureChangesNothing ==
    [][ (call'.op = "CreateGLTexture" /\ ~call'.args[1].image)
        => /\ call'.ret = << FALSE >>
           /\ glTextures' = glTextures
           /\ glUnits' = glUnits
           /\ m_loadedTextures' = m_loadedTextures
           /\ m_textureIDs' = m_textureIDs
           /\ life' = "alive"
      ]_vars

\* an unreadable file has failed to load beside two registered textures
C11_Witness ==
    /\ call.op = "CreateGLTexture"
    /\ ~call.args[1].image
    /\ call.ret = << FALSE >>
    /\ m_loadedTextures = 2
    /\ Cardinality(glTextures) = 2

----------------------------------------------------------------------------
\* C12: FindTextureSlot and FindTextureID are the same first-match lookup: for
\* every tag both return -1 when no entry carries it; otherwise FindTextureSlot
\* returns the smallest index whose entry carries it and FindTextureID the name
\* stored at that index.  A call of either returns that value and leaves the
\* registry as it was.
C12_LookupsAgree ==
    /\ [](life = "alive" =>
            \A tag \in LookupTags :
               IF Registered(tag)
               THEN /\ FindTextureSlot(tag) = FirstIndex(tag)
                    /\ FindTextureID(tag) = m_textureIDs[FirstIndex(tag)].ID
               ELSE /\ FindTextureSlot(tag) = -1
                    /\ FindTextureID(tag) = -1)
    /\ [][ (call'.op \in {"FindTextureID", "FindTextureSlot"})
           => /\ UNCHANGED << m_textureIDs, m_loadedTextures, glTextures >>
              /\ call'.ret =
                   IF Registered(call'.args[1])
                   THEN IF call'.op = "FindTextureSlot"
                        THEN << FirstIndex(call'.args[1]) >>
                        ELSE << m_textureIDs[FirstIndex(call'.args[1])].ID >>
                   ELSE << -1 >>
         ]_vars

\* FindTextureID has returned the name at index 1, where its tag first occurs,
\* and not the name at index 2, which carries the tag too
C12_Witness ==
    /\ call.op = "FindTextureID"
    /\ m_loadedTextures = 3
    /\ m_textureIDs[0].tag # call.args[1]
    /\ m_textureIDs[1].tag = call.args[1]
    /\ m_textureIDs[2].tag = call.args[1]
    /\ call.ret = << m_textureIDs[1].ID >>
    /\ FindTextureSlot(call.args[1]) = 1

----------------------------------------------------------------------------
\* the smallest index of the catalog whose entry carries the tag
FirstMaterial(tag) ==
    CHOOSE k \in DOMAIN m_objectMaterials :
        /\ m_objectMaterials[k].tag = tag
        /\ \A j \in 1 .. (k - 1) : m_objectMaterials[j].tag # tag

\* C13: with a shader manager, SetShaderMaterial with a tag that is in the
\* catalog pushes the diffuseColor, specularColor and shininess of the first
\* catalog entry carrying the tag, and nothing else.
C13_PresentMaterialPushesFirstEntry ==
    ( /\ call.op = "SetShaderMaterial"
      /\ m_pShaderManager # "NULL"
      /\ \E k \in DOMAIN m_objectMaterials :
            m_objectMaterials[k].tag = call.args[1] )
    => LET entry == m_objectMaterials[FirstMaterial(call.args[1])]
       IN  /\ uniforms["material.diffuseColor"] = << entry.diffuseColor >>
           /\ uniforms["material.specularColor"] = << entry.specularColor >>
           /\ uniforms["material.shininess"] = << entry.shininess >>
           /\ call.writes = MaterialUniforms
           /\ life = "alive"

\* "glass" is in the catalog twice, at 5 and at 12, and the values of the entry
\* at 5 are in the shader
C13_Witness ==
    /\ call.op = "SetShaderMaterial" /\ call.args[1] = "glass"
    /\ Len(m_objectMaterials) = 14
    /\ FirstMaterial("glass") = 5
    /\ uniforms["material.diffuseColor"] = << << 30, 30, 30 >> >>
    /\ uniforms["material.specularColor"] = << << 60, 60, 60 >> >>
    /\ uniforms["material.shininess"] = << 8500 >>

(* What becomes of a vertex, one step at a time *)

ScaleVertex(v, s) ==
    << (v[1] * s[1]) \div 1000, (v[2] * s[2]) \div 1000,
       (v[3] * s[3]) \div 1000 >>

AboutX(v, degrees) ==
    << v[1],
       (v[2] * Cos(degrees) - v[3] * Sin(degrees)) \div 1000,
       (v[2] * Sin(degrees) + v[3] * Cos(degrees)) \div 1000 >>

AboutY(v, degrees) ==
    << (v[1] * Cos(degrees) + v[3] * Sin(degrees)) \div 1000,
       v[2],
       (v[3] * Cos(degrees) - v[1] * Sin(degrees)) \div 1000 >>

AboutZ(v, degrees) ==
    << (v[1] * Cos(degrees) - v[2] * Sin(degrees)) \div 1000,
       (v[1] * Sin(degrees) + v[2] * Cos(degrees)) \div 1000,
       v[3] >>

MoveVertex(v, p) == << v[1] + p[1], v[2] + p[2], v[3] + p[3] >>

\* the matrix applied to the point v
Transformed(M, v) ==
    << (M[1][1] * v[1] + M[1][2] * v[2] + M[1][3] * v[3]) \div 1000 + M[1][4],
       (M[2][1] * v[1] + M[2][2] * v[2] + M[2][3] * v[3]) \div 1000 + M[2][4],
       (M[3][1] * v[1] + M[3][2] * v[2] + M[3][3] * v[3]) \div 1000 + M[3][4] >>

\* the origin, the three unit points and a point off every axis: an affine map
\* is fixed by what it does to the first four
TestVertices ==
    { << 0, 0, 0 >>, << 1000, 0, 0 >>, << 0, 1000, 0 >>, << 0, 0, 1000 >>,
      << 1000, -2000, 3000 >> }

Identity ==
    << << 1000, 0, 0, 0 >>,
       << 0, 1000, 0, 0 >>,
       << 0, 0, 1000, 0 >>,
       << 0, 0, 0, 1000 >> >>

\* SetTransformations has just pushed a matrix
PushedModel ==
    /\ call.op = "SetTransformations"
    /\ m_pShaderManager # "NULL"

\* C17: the matrix SetTransformations pushes takes every vertex to the vertex
\* scaled first, then turned about X, then about Y, then about Z, then moved by
\* the position: it is translation x rotationZ x rotationY x rotationX x scale.
C17_ModelIsScaleRotateTranslate ==
    PushedModel
    => LET M == uniforms[g_ModelName][1]
           a == call.args
       IN  /\ uniforms[g_ModelName] # << >>
           /\ M[4] = << 0, 0, 0, 1000 >>
           /\ \A v \in TestVertices :
                 Transformed(M, v)
                    = MoveVertex(AboutZ(AboutY(AboutX(ScaleVertex(v, a[1]),
                                                      a[2]), a[3]), a[4]), a[5])

\* a quarter turn about X and then about Y of a mesh scaled by (2, 1, 2) and
\* moved off the origin: the order of the factors shows
C17_Witness ==
    /\ PushedModel
    /\ call.args = << << 2000, 1000, 2000 >>, 90, 90, 0,
                      << 1000, -1000, -1000 >> >>
    /\ Transformed(uniforms[g_ModelName][1], << 0, 1000, 0 >>)
          = << 2000, -1000, -1000 >>

\* C18: whatever the scale (zero too) and the rotations, the fourth column of
\* the matrix SetTransformations pushes is the position it was given.
C18_TranslationColumnIsPosition ==
    PushedModel
    => LET M == uniforms[g_ModelName][1]
       IN  << M[1][4], M[2][4], M[3][4] >> = call.args[5]

\* a zero scale on X, turns about all three axes, a position off the origin
C18_Witness ==
    /\ PushedModel
    /\ call.args = << << 0, 2000, 1000 >>, 90, 180, 40,
                      << -1000, 1000, 1000 >> >>
    /\ uniforms[g_ModelName][1][1][4] = -1000
    /\ uniforms[g_ModelName][1][2][4] = 1000
    /\ uniforms[g_ModelName][1][3][4] = 1000

\* C19: scale (1, 1, 1), no rotation and position (0, 0, 0) push the identity.
C19_NeutralArgumentsPushIdentity ==
    ( /\ PushedModel
      /\ call.args = << << 1000, 1000, 1000 >>, 0, 0, 0, << 0, 0, 0 >> >> )
    => uniforms[g_ModelName] = << Identity >>

C19_Witness ==
    /\ PushedModel
    /\ call.args = << << 1000, 1000, 1000 >>, 0, 0, 0, << 0, 0, 0 >> >>
    /\ call.writes = {g_ModelName}
    /\ uniforms[g_ModelName] = << Identity >>

\* the uniforms a binder operation may write, by the name of the operation
OwnUniforms(op) ==
    CASE op = "SetTransformations" -> {g_ModelName}
      [] op = "SetShaderColor" -> {g_UseTextureName, g_ColorValueName}
      [] op = "SetShaderTexture" -> {g_UseTextureName, g_TextureValueName}
      [] op = "SetTextureUVScale" -> {"UVscale"}
      [] op = "SetShaderMaterial" -> MaterialUniforms
      [] OTHER -> {}

\* C14: with a shader manager, SetShaderColor leaves bUseTexture false and
\* objectColor at its arguments, SetShaderTexture leaves bUseTexture true, and
\* no other operation, a draw included, touches bUseTexture: the flag is true
\* exactly when the later of the two kinds of call was SetShaderTexture.
C14_LastOfColorAndTextureWins ==
    [][ m_pShaderManager # "NULL"
        => /\ call'.op = "SetShaderColor"
              => /\ uniforms'[g_UseTextureName] = << 0 >>
                 /\ uniforms'[g_ColorValueName] = << call'.args >>
           /\ call'.op = "SetShaderTexture"
              => uniforms'[g_UseTextureName] = << 1 >>
           /\ call'.op \notin {"SetShaderColor", "SetShaderTexture"}
              => uniforms'[g_UseTextureName] = uniforms[g_UseTextureName] ]_vars

\* a draw after SetShaderTexture, SetShaderMaterial and then SetShaderColor:
\* the flag is false although a texture slot is still in objectTexture
C14_Witness ==
    /\ call.op = "DrawSphereMesh"
    /\ uniforms[g_UseTextureName] = << 0 >>
    /\ uniforms[g_ColorValueName] = << << 70, 70, 70, 100 >> >>
    /\ uniforms[g_TextureValueName] = << 0 >>
    /\ uniforms["material.shininess"] = << 8500 >>

\* C15: a binder operation changes no uniform but its own, a draw changes none,
\* and neither does any other call: a uniform holds its last write.
C15_OnlyOwnUniformsChange ==
    [][ /\ \A name \in UniformNames :
              uniforms'[name] # uniforms[name] => name \in OwnUniforms(call'.op)
        /\ call'.op \in Meshes => uniforms' = uniforms ]_vars

\* the flat-colored sphere: drawn with the matrix and the color just set and
\* with the UV scale, the texture slot and the material of an earlier mesh
C15_Witness ==
    /\ call.op = "DrawSphereMesh"
    /\ uniforms[g_ModelName] # << >>
    /\ uniforms[g_UseTextureName] = << 0 >>
    /\ uniforms[g_ColorValueName] = << << 0, 0, 0, 100 >> >>
    /\ uniforms["UVscale"] = << << 300, 300 >> >>
    /\ uniforms[g_TextureValueName] = << 0 >>
    /\ uniforms["material.diffuseColor"] = << << 30, 30, 30 >> >>

BinderOps ==
    { "SetTransformations", "SetShaderColor", "SetTextureUVScale",
      "SetShaderTexture", "SetShaderMaterial" }

LookupOps == {"FindTextureID", "FindTextureSlot"}

\* the step enters RenderScene or is one of its calls
RenderSceneStep == pc[1] = "RenderScene" \/ pc'[1] = "RenderScene"

\* C16: neither RenderScene, at any of its calls, nor a lookup or a binder
\* operation changes the number of registered textures, an entry of the
\* registry or the material catalog: after any number of frames they are what
\* PrepareScene left.
C16_RenderSceneOnlyReads ==
    [][ (RenderSceneStep \/ call'.op \in BinderOps \cup LookupOps)
        => UNCHANGED << m_loadedTextures, m_textureIDs, m_objectMaterials >> ]_vars

\* a frame has been rendered to its last draw, after PrepareScene, and the
\* eleven textures and the seven materials are there
C16_Witness ==
    /\ pc = Idle
    /\ call.op = "DrawCylinderMesh"
    /\ uniforms[g_ModelName] # << >>
    /\ m_loadedTextures = 11
    /\ \A i \in 0 .. 10 :
          m_textureIDs[i] = [ID |-> i + 1, tag |-> LoadSceneTexturesCalls[i + 1][2][1]]
    /\ m_objectMaterials =
         << metalMaterial, cementMaterial, woodMaterial, tileMaterial,
            glassMaterial, clayMaterial, ceramicMaterial >>

\* every registered texture is bound to the unit of its index
AllBound ==
    \A i \in 0 .. (m_loadedTextures - 1) :
        i \in Slots => glUnits[i] = m_textureIDs[i].ID

\* C20: in PrepareScene no CreateGLTexture follows anything but the entry or
\* another CreateGLTexture, the one BindGLTextures follows the last load,
\* DefineObjectMaterials follows it, SetupSceneLights follows that and, with a
\* shader manager, sets bUseLighting, and the mesh loads come after; so a draw
\* of a prepared scene finds the lighting on and every registered texture bound.
C20_SetupOrder ==
    [][ /\ call'.op = "CreateGLTexture"
           => /\ call.op \in {"PrepareScene", "CreateGLTexture"}
              /\ m_objectMaterials = << >>
              /\ uniforms[g_UseLightingName] = << >>
        /\ call'.op = "BindGLTextures"
           => /\ call.op = "CreateGLTexture"
              /\ call.args[2] = "white_plastic"
              /\ m_objectMaterials = << >>
        /\ call'.op = "DefineObjectMaterials"
           => /\ call.op = "BindGLTextures"
              /\ uniforms[g_UseLightingName] = << >>
        /\ call'.op = "SetupSceneLights"
           => /\ call.op = "DefineObjectMaterials"
              /\ m_pShaderManager # "NULL"
                 => uniforms'[g_UseLightingName] = << TRUE >>
        /\ call'.op \in LoadMeshes
           => /\ call.op \in {"SetupSceneLights"} \cup LoadMeshes
              /\ uniforms[g_UseLightingName] = << TRUE >>
              /\ AllBound
        /\ (call'.op \in DrawMeshes /\ m_objectMaterials # << >>)
           => /\ uniforms[g_UseLightingName] = << TRUE >>
              /\ AllBound ]_vars

\* the first draw of a prepared scene: eleven textures bound, lighting on
C20_Witness ==
    /\ pc = << "RenderScene", 6 >>
    /\ call.op = "DrawPlaneMesh"
    /\ m_loadedTextures = 11
    /\ Len(m_objectMaterials) = 7
    /\ uniforms[g_UseLightingName] = << TRUE >>
    /\ \A i \in 0 .. 10 : glUnits[i] = i + 1
    /\ uniforms[g_TextureValueName] = << 5 >>

----------------------------------------------------------------------------
\* the struct a uniform of the directional light is a field of: the name before
\* the dot
StructOf(name) ==
    CASE name = "directionalLight.direction" -> "directionalLight"
      [] name = "directionLight.ambient" -> "directionLight"
      [] name = "directionLight.diffuse" -> "directionLight"
      [] name = "directionLight.specular" -> "directionLight"

PointLightUniformNames ==
    { PointLightName(i, field) : i \in 0 .. 2, field \in PointLightFields }

\* C21: with a shader manager, SetupSceneLights pushes the five fields of every
\* point light it configures and pushes the four fields of the directional
\* light, all four to one and the same struct.
C21_LightsPushedWhole ==
    (call.op = "SetupSceneLights" /\ m_pShaderManager # "NULL")
    => LET directional ==
               call.writes \ (PointLightUniformNames \cup {g_UseLightingName})
       IN  /\ PointLightUniformNames \subseteq call.writes
           /\ \A name \in PointLightUniformNames : uniforms[name] # << >>
           /\ Cardinality(directional) = 4
           /\ Cardinality({ StructOf(name) : name \in directional }) = 1

----------------------------------------------------------------------------
\* the tags of LoadSceneTextures, in the order of its calls
SceneTags ==
    << "steel", "obsidian", "orange", "black", "tan", "taupe", "white_wood",
       "red_ceramic", "wood_log", "flower_tile", "white_plastic" >>

TagIndex(tag) == CHOOSE k \in 1 .. Len(SceneTags) : SceneTags[k] = tag

\* C22: whatever loads of LoadSceneTextures fail, the run goes on: the loads are
\* attempted one after the other in the order of the code, BindGLTextures runs
\* after the last and binds what was registered; a load that succeeds gets the
\* number of loads that succeeded before it as its slot and keeps it, and the
\* tag of a load that fails is not found.
C22_FailedLoadsAreSkipped ==
    /\ [](life = "alive")
    /\ [](\A i \in 0 .. (m_loadedTextures - 1) :
             /\ FindTextureSlot(m_textureIDs[i].tag) = i
             /\ \A j \in 0 .. (i - 1) :
                   TagIndex(m_textureIDs[j].tag) < TagIndex(m_textureIDs[i].tag))
    /\ [][ /\ call'.op = "CreateGLTexture"
              => /\ IF call.op = "CreateGLTexture"
                    THEN TagIndex(call'.args[2]) = TagIndex(call.args[2]) + 1
                    ELSE call.op = "LoadSceneTextures" /\ call'.args[2] = SceneTags[1]
                 /\ IF call'.ret = << TRUE >>
                    THEN /\ m_loadedTextures' = m_loadedTextures + 1
                         /\ FindTextureSlotIn(m_textureIDs', m_loadedTextures',
                                              call'.args[2]) = m_loadedTextures
                    ELSE /\ m_loadedTextures' = m_loadedTextures
                         /\ m_textureIDs' = m_textureIDs
                         /\ FindTextureSlotIn(m_textureIDs', m_loadedTextures',
                                              call'.args[2]) = -1
           /\ call'.op = "BindGLTextures"
              => /\ call.op = "CreateGLTexture"
                 /\ call.args[2] = SceneTags[Len(SceneTags)]
                 /\ \A i \in 0 .. (m_loadedTextures - 1) :
                       glUnits'[i] = m_textureIDs[i].ID ]_vars

\* "steel" failed to decode and "tan" had one channel: nine textures are bound,
\* "obsidian" is at slot 0 and "white_plastic" at slot 8
C22_Witness ==
    /\ call.op = "BindGLTextures"
    /\ pc = Idle
    /\ m_loadedTextures = 9
    /\ FindTextureSlot("steel") = -1
    /\ FindTextureSlot("tan") = -1
    /\ FindTextureSlot("obsidian") = 0
    /\ FindTextureSlot("taupe") = 3
    /\ FindTextureSlot("white_plastic") = 8
    /\ glUnits[8] = m_textureIDs[8].ID
    /\ Cardinality(glTextures) = 10

----------------------------------------------------------------------------
\* the place among the calls of RenderScene of the draw of the switch sphere,
\* the sphere of the lighter that is drawn in a flat color
SwitchSphereDraw == 29

\* C23: in RenderScene a draw follows SetShaderMaterial, which follows
\* SetShaderTexture, which follows SetTextureUVScale, which follows
\* SetShaderColor or SetTransformations; SetShaderColor follows
\* SetTransformations, which opens the frame or follows the draw before.  Only
\* the draw of the switch sphere follows SetShaderColor at once.  So, with a
\* shader manager, bUseTexture is true at every draw but that one.
C23_EveryDrawIsSetUp ==
    [][ pc[1] = "RenderScene"
        => /\ call'.op \in DrawMeshes
              => /\ IF pc[2] = SwitchSphereDraw
                    THEN call.op = "SetShaderColor" /\ call'.op = "DrawSphereMesh"
                    ELSE call.op = "SetShaderMaterial"
                 /\ m_pShaderManager # "NULL"
                    => uniforms'[g_UseTextureName]
                          = IF pc[2] = SwitchSphereDraw THEN << 0 >> ELSE << 1 >>
           /\ call'.op = "SetShaderMaterial" => call.op = "SetShaderTexture"
           /\ call'.op = "SetShaderTexture" => call.op = "SetTextureUVScale"
           /\ call'.op = "SetTextureUVScale"
              => call.op \in {"SetShaderColor", "SetTransformations"}
           /\ call'.op = "SetShaderColor" => call.op = "SetTransformations"
           /\ call'.op = "SetTransformations"
              => call.op \in DrawMeshes \cup {"RenderScene"}
           /\ call'.op \in DrawMeshes \cup BinderOps ]_vars

\* the second draw before the switch sphere has been made: the mesh was drawn
\* textured although a color was set for it, the texture being set after it
C23_Witness ==
    /\ pc = << "RenderScene", SwitchSphereDraw - 7 >>
    /\ call.op = "DrawTaperedCylinderMesh"
    /\ uniforms[g_UseTextureName] = << 1 >>
    /\ uniforms[g_ColorValueName] = << << 70, 70, 70, 100 >> >>

----------------------------------------------------------------------------
DistinctMaterialTags ==
    \A i, j \in DOMAIN m_objectMaterials :
        i # j => m_objectMaterials[i].tag # m_objectMaterials[j].tag

InCatalog(tag) == \E k \in DOMAIN m_objectMaterials : m_objectMaterials[k].tag = tag

\* C24: the tags LoadSceneTextures registers are distinct and so are the tags
\* DefineObjectMaterials defines; in a frame of a prepared scene whose eleven
\* loads succeeded every SetShaderTexture names a registered tag and pushes its
\* slot, every SetShaderMaterial names a tag of the catalog and pushes its
\* entry, and no draw is made with sampler -1.
C24_SceneTagsResolve ==
    /\ [](DistinctTags /\ DistinctMaterialTags)
    /\ [][ ( /\ pc[1] = "RenderScene"
             /\ m_loadedTextures = Len(SceneTags)
             /\ m_objectMaterials # << >> )
           => /\ call'.op = "SetShaderTexture"
                 => /\ Registered(call'.args[1])
                    /\ uniforms'[g_TextureValueName]
                          = << FirstIndex(call'.args[1]) >>
              /\ call'.op = "SetShaderMaterial"
                 => /\ InCatalog(call'.args[1])
                    /\ LET entry == m_objectMaterials[FirstMaterial(call'.args[1])]
                       IN  /\ uniforms'["material.diffuseColor"]
                                = << entry.diffuseColor >>
                           /\ uniforms'["material.specularColor"]
                                = << entry.specularColor >>
                           /\ uniforms'["material.shininess"]
                                = << entry.shininess >>
              /\ call'.op \in DrawMeshes
                 => /\ uniforms'[g_TextureValueName] # << >>
                    /\ uniforms'[g_TextureValueName] # << -1 >>
                    /\ uniforms'["material.shininess"] # << >> ]_vars

\* the last draw of the toaster: "white_plastic", loaded last, is at slot 10
\* and the cement is in the shader
C24_Witness ==
    /\ pc = Idle
    /\ call.op = "DrawCylinderMesh"
    /\ m_loadedTextures = Len(SceneTags)
    /\ Len(m_objectMaterials) = 7
    /\ uniforms[g_TextureValueName] = << 10 >>
    /\ uniforms["material.shininess"] = << cementMaterial.shininess >>

----------------------------------------------------------------------------
\* C25: every texture name a call of CreateGLTexture generates is, when the
\* call returns, in the registry or deleted again, on every path of the call.
C25_NoTextureOrphaned ==
    [][ call'.op = "CreateGLTexture"
        => \A textureID \in glTextures' \ glTextures :
              \E i \in 0 .. (m_loadedTextures' - 1) :
                 i \in Slots /\ m_textureIDs'[i].ID = textureID ]_vars

----------------------------------------------------------------------------
\* C26: a SceneManager made with a null shader manager never dereferences it,
\* and its binder operations, SetupSceneLights among them, write no uniform,
\* whatever the registry and the catalog hold.
C26_NullShaderManagerIsSafe ==
    /\ life # "null_dereference"
    /\ (m_pShaderManager = "NULL"
          /\ call.op \in BinderOps \cup {"SetupSceneLights"})
       => /\ call.writes = {}
          /\ \A name \in UniformNames : uniforms[name] = << >>

----------------------------------------------------------------------------
\* BindGLTextures has run: it was the last call, or PrepareScene went past it
BindHasRun == call.op = "BindGLTextures" \/ m_objectMaterials # << >>

\* C27: once BindGLTextures has run, unit i holds the name of the i-th
\* registered texture, and no lookup, binder operation or call of RenderScene
\* changes a unit; so the slot SetShaderTexture pushes for a registered tag is
\* the unit that holds the texture of that tag.
C27_UnitsStayBound ==
    /\ [](BindHasRun => AllBound)
    /\ [][ (RenderSceneStep \/ call'.op \in BinderOps \cup LookupOps)
           => /\ UNCHANGED << glUnits, glTextures >>
              /\ ( /\ call'.op = "SetShaderTexture"
                   /\ m_pShaderManager # "NULL"
                   /\ BindHasRun
                   /\ Registered(call'.args[1]) )
                 => LET textureSlot == uniforms'[g_TextureValueName][1]
                    IN  /\ textureSlot \in 0 .. (m_loadedTextures - 1)
                        /\ glUnits'[textureSlot] = FindTextureID(call'.args[1])
                        /\ m_textureIDs[textureSlot].tag = call'.args[1] ]_vars

\* "obsidian" failed to load: in a frame of the prepared scene "white_plastic"
\* is pushed as slot 9, and unit 9 holds its texture
C27_Witness ==
    /\ pc[1] = "RenderScene"
    /\ call.op = "SetShaderTexture"
    /\ call.args = << "white_plastic" >>
    /\ m_loadedTextures = 10
    /\ FindTextureSlot("obsidian") = -1
    /\ uniforms[g_TextureValueName] = << 9 >>
    /\ glUnits[9] = FindTextureID("white_plastic")
    /\ uniforms["material.shininess"] # << >>

----------------------------------------------------------------------------
\* the value a call of RenderScene writes to the uniform `name`, from its
\* arguments, the registry and the catalog alone
Written(name, c) ==
    CASE c.op = "SetTransformations" ->
           ComposeModelView(ScaleMatrix(c.args[1]), RotateX(c.args[2]),
                            RotateY(c.args[3]), RotateZ(c.args[4]),
                            TranslateMatrix(c.args[5]))
      [] c.op = "SetShaderColor" ->
           (IF name = g_UseTextureName THEN 0 ELSE c.args)
      [] c.op = "SetShaderTexture" ->
           (IF name = g_UseTextureName THEN 1 ELSE FindTextureSlot(c.args[1]))
      [] c.op = "SetTextureUVScale" -> c.args
      [] c.op = "SetShaderMaterial" ->
           (LET entry == m_objectMaterials[FirstMaterial(c.args[1])]
            IN  CASE name = "material.diffuseColor" -> entry.diffuseColor
                  [] name = "material.specularColor" -> entry.specularColor
                  [] name = "material.shininess" -> entry.shininess)

\* the uniforms a call of RenderScene writes
FrameWrites(op) ==
    IF m_pShaderManager = "NULL" THEN {}
    ELSE IF op = "SetShaderMaterial" /\ m_objectMaterials = << >> THEN {}
    ELSE OwnUniforms(op)

\* the last call of RenderScene that writes the uniform `name`
LastWriter(name) ==
    LET k == CHOOSE k \in DOMAIN RenderSceneCalls :
                /\ name \in OwnUniforms(RenderSceneCalls[k][1])
                /\ \A j \in (k + 1) .. Len(RenderSceneCalls) :
                      name \notin OwnUniforms(RenderSceneCalls[j][1])
    IN  [op |-> RenderSceneCalls[k][1], args |-> RenderSceneCalls[k][2]]

\* the uniforms some call of RenderScene writes
FrameUniforms ==
    UNION { OwnUniforms(RenderSceneCalls[k][1]) : k \in DOMAIN RenderSceneCalls }

\* RenderScene has returned
FrameDone == pc = Idle /\ call.op = "DrawCylinderMesh"

\* C28: the k-th call of RenderScene, its arguments and the values it writes
\* are fixed by k, the registry and the catalog, whatever the sink held before,
\* RenderScene changes neither of the two, and the sink it leaves holds, for
\* every uniform a frame writes, the value of the last call that writes it: a
\* second frame emits what the first did and leaves the sink as the first did.
C28_FramesRepeat ==
    /\ [](FrameDone
          => \A name \in FrameUniforms :
                name \in FrameWrites(LastWriter(name).op)
                => uniforms[name] = << Written(name, LastWriter(name)) >>)
    /\ [][ pc[1] = "RenderScene"
           => /\ call'.op = RenderSceneCalls[pc[2]][1]
              /\ call'.args = RenderSceneCalls[pc[2]][2]
              /\ call'.writes = FrameWrites(call'.op)
              /\ \A name \in UniformNames :
                    uniforms'[name] = IF name \in call'.writes
                                      THEN << Written(name, call') >>
                                      ELSE uniforms[name]
              /\ UNCHANGED << m_textureIDs, m_loadedTextures, m_objectMaterials,
                              m_pShaderManager >> ]_vars

\* a second frame of a prepared scene has made its first call: the sink still
\* holds the texture slot, the UV scale and the material the frame before left
C28_Witness ==
    /\ pc = << "RenderScene", 2 >>
    /\ call.op = "SetTransformations"
    /\ Registered("white_plastic")
    /\ uniforms[g_TextureValueName] = << FindTextureSlot("white_plastic") >>
    /\ uniforms["UVscale"] = << << 100, 100 >> >>
    /\ uniforms["material.shininess"] = << cementMaterial.shininess >>
    /\ uniforms[g_ModelName]
          = << Written(g_ModelName, [op |-> RenderSceneCalls[1][1],
                                     args |-> RenderSceneCalls[1][2]]) >>

----------------------------------------------------------------------------
\* the catalog after a single call of DefineObjectMaterials
DefinedOnce ==
    << metalMaterial, cementMaterial, woodMaterial, tileMaterial,
       glassMaterial, clayMaterial, ceramicMaterial >>

\* the entry of DefinedOnce that carries the tag
OnceEntry(tag) ==
    DefinedOnce[CHOOSE k \in DOMAIN DefinedOnce : DefinedOnce[k].tag = tag]

DefinedTags == { DefinedOnce[k].tag : k \in DOMAIN DefinedOnce }

\* C29: every call of DefineObjectMaterials appends the seven materials, so
\* that k calls leave 7k entries, the seven repeated k times; and for each of
\* the seven tags the lookup stops at the first entry carrying it, whose values
\* are those a single call defines: SetShaderMaterial pushes these values
\* whatever k is.
C29_RedefinitionKeepsPushedValues ==
    /\ [][ call'.op = "DefineObjectMaterials"
           => /\ Len(m_objectMaterials') = Len(m_objectMaterials) + Len(DefinedOnce)
              /\ m_objectMaterials' = m_objectMaterials \o DefinedOnce ]_vars
    /\ [](/\ Len(m_objectMaterials) % Len(DefinedOnce) = 0
          /\ \A i \in DOMAIN m_objectMaterials :
                m_objectMaterials[i]
                   = DefinedOnce[((i - 1) % Len(DefinedOnce)) + 1]
          /\ m_objectMaterials # << >>
             => \A tag \in DefinedTags :
                   /\ FirstMaterial(tag) \in DOMAIN DefinedOnce
                   /\ \A uninitialized \in UninitializedMaterials :
                         LET found == FindMaterial(tag, uninitialized)
                         IN  /\ found.ret = TRUE
                             /\ found.material.diffuseColor
                                   = OnceEntry(tag).diffuseColor
                             /\ found.material.specularColor
                                   = OnceEntry(tag).specularColor
                             /\ found.material.shininess
                                   = OnceEntry(tag).shininess
          /\ ( /\ call.op = "SetShaderMaterial"
               /\ call.args[1] \in DefinedTags
               /\ m_pShaderManager # "NULL"
               /\ m_objectMaterials # << >> )
             => /\ uniforms["material.diffuseColor"]
                      = << OnceEntry(call.args[1]).diffuseColor >>
                /\ uniforms["material.specularColor"]
                      = << OnceEntry(call.args[1]).specularColor >>
                /\ uniforms["material.shininess"]
                      = << OnceEntry(call.args[1]).shininess >>)

\* the materials were defined twice, "metal" is at 1 and at 8, and the values
\* of a single definition are in the shader
C29_Witness ==
    /\ call.op = "SetShaderMaterial" /\ call.args = << "metal" >>
    /\ Len(m_objectMaterials) = 2 * Len(DefinedOnce)
    /\ m_objectMaterials[1].tag = "metal" /\ m_objectMaterials[8].tag = "metal"
    /\ uniforms["material.diffuseColor"] = << << 20, 20, 100 >> >>
    /\ uniforms["material.specularColor"] = << << 60, 50, 40 >> >>
    /\ uniforms["material.shininess"] = << 2200 >>

====
